---- MODULE Spec2Model ----
(***************************************************************************)
(* Model of the TrueNAS password changer: the session-handshake WebSocket  *)
(* client (app/truenas_websocket_client.py), the direct-envelope client    *)
(* (app/truenas_client.py) and the Flask routes (app/routes/password.py,   *)
(* app/routes/auth.py).                                                    *)
(*                                                                         *)
(* The appliance and the network are the environment: every frame the      *)
(* client reads is chosen by the environment from a bounded set, and       *)
(* opening a socket, sending on it and the SMB probe may fail.             *)
(***************************************************************************)
EXTENDS Integers, Sequences, FiniteSets, TLC

(***************************************************************************)
(* Bounds of the model.                                                    *)
(***************************************************************************)
\* requests one client may number before the model stops issuing calls
MaxReq == 3
\* sockets one client may open
MaxSock == 2
\* web requests the route model serves
MaxWeb == 3
\* threads that call one client at the same time
MaxCallers == 2

(***************************************************************************)
(* Python values.  None is the empty option, Some(x) a present value.      *)
(***************************************************************************)
None == <<>>
Some(x) == <<x>>

\* JSON payloads, tagged by type; one record shape for all of them.
JNull == [t |-> "null", b |-> FALSE, rows |-> <<>>]
JBool(b) == [t |-> "bool", b |-> b, rows |-> <<>>]
JList(rows) == [t |-> "list", b |-> FALSE, rows |-> rows]
JDict == [t |-> "dict", b |-> FALSE, rows |-> <<>>]
JStr == [t |-> "str", b |-> FALSE, rows |-> <<>>]

\* Python truthiness of a JSON payload (None, False and [] are falsy; the
\* dict and string payloads of the model are non-empty).
Truthy(v) ==
    CASE v.t = "null" -> FALSE
      [] v.t = "bool" -> v.b
      [] v.t = "list" -> Len(v.rows) > 0
      [] OTHER -> TRUE

\* Python truthiness of an optional string: None and "" are falsy.
TruthyStr(o) == o # None /\ o[1] # ""

\* An envelope id: absent, a JSON string or a JSON number.
NoId == [k |-> "none", n |-> 0]
IntId(n) == [k |-> "int", n |-> n]
\* str(self._request_id): the id the client sends is a JSON string.
StrId(n) == [k |-> "str", n |-> n]

(***************************************************************************)
(* Password hashing.  A crypt hash is the string "$<scheme>$<salt>$<dig>", *)
(* held as the sequence of its parts; each scheme digests differently.     *)
(***************************************************************************)
Passwords == {"pw1", "pw2"}
Salt == "na"
Digest(scheme, password, salt) == scheme \o ":" \o salt \o ":" \o password
CryptHash(scheme, password) ==
    <<"$", scheme, "$", Salt, "$", Digest(scheme, password, Salt)>>

\* str.startswith
StartsWith(s, p) == Len(s) >= Len(p) /\ SubSeq(s, 1, Len(p)) = p

\* passlib's <scheme>_crypt.verify(password, stored_hash): "raise" for a
\* string that is not a well-formed hash of the scheme (ValueError).
SchemeVerify(scheme, password, h) ==
    IF Len(h) = 6 /\ SubSeq(h, 1, 3) = <<"$", scheme, "$">> /\ h[5] = "$"
    THEN IF h[6] = Digest(scheme, password, h[4]) THEN "true" ELSE "false"
    ELSE "raise"

(***************************************************************************)
(* Results of the client's operations: a returned value or a raised        *)
(* TrueNASAPIError(message, code, reason).  probed and verifier record     *)
(* whether login ran the SMB probe and which hash verifier it invoked.     *)
(***************************************************************************)
NoOutcome ==
    [kind |-> "none", value |-> JNull, message |-> "", code |-> None,
     reason |-> None, probed |-> FALSE, verifier |-> "none"]
Ret(v) == [NoOutcome EXCEPT !.kind = "return", !.value = v]
Raise(message, code, reason) ==
    [NoOutcome EXCEPT !.kind = "raise", !.message = message, !.code = code,
                      !.reason = reason]

(***************************************************************************)
(* The appliance's user records (the rows of a user.query result).         *)
(***************************************************************************)
StoredHashes ==
    { None, Some(<<>>), Some(<<"*">>), Some(<<"$", "6", "$">>),
      Some(<<"$", "2b", "$", Salt, "$", "2b:na:pw1">>),
      Some(CryptHash("6", "pw1")), Some(CryptHash("5", "pw1")),
      Some(CryptHash("1", "pw1")) }
UserRecords ==
    [id : {7}, twofactor_auth_configured : BOOLEAN, smb : BOOLEAN,
     unixhash : StoredHashes]
SecondRow ==
    [id |-> 8, twofactor_auth_configured |-> FALSE, smb |-> FALSE,
     unixhash |-> Some(CryptHash("6", "pw2"))]

(***************************************************************************)
(* TrueNASWebSocketClient.login, after the user.query call returned.       *)
(***************************************************************************)
\* Faulty variant of UserNotFound, for contrast: a message of its own for the unknown user.
UserNotFoundLeaky ==
    Raise("User not found", None, Some("User not found"))
\* line 228: no rows
UserNotFound ==
    Raise("Invalid username or password", None,
          Some("Invalid username or password"))
\* line 252: the record has no stored hash
NoStoredHash ==
    Raise("Invalid username or password", None,
          Some("Invalid username or password"))
\* line 268: the verifier reported a mismatch
WrongPassword ==
    Raise("Invalid username or password", None,
          Some("Invalid username or password"))
\* line 234
OtpRequired ==
    Raise("OTP token required", None, Some("Two-factor authentication required"))
\* Faulty variant of UnsupportedHashFormat, for contrast: the unsupported scheme reported as a
\* wrong password.
UnsupportedAsInvalid ==
    Raise("Invalid username or password", None,
          Some("Invalid username or password"))
\* line 263
UnsupportedHashFormat ==
    Raise("Unsupported hash format", None,
          Some("Unsupported password hash format"))
\* lines 272-273: any other exception inside login
AuthenticationFailed(detail) ==
    Raise("Authentication failed: " \o detail, None, None)

\* Faulty variant of NeedsOtp, for contrast: the second factor is asked for only on the hash path.
NeedsOtpHashOnly(user, otp_token) ==
    user.twofactor_auth_configured /\ ~TruthyStr(otp_token) /\ ~user.smb
\* line 233
NeedsOtp(user, otp_token) ==
    user.twofactor_auth_configured /\ ~TruthyStr(otp_token)

\* Faulty variant of SelectVerifier, for contrast: the "$5$" branch calls the SHA-512 verifier.
SelectVerifierSha512Twice(stored_hash) ==
    IF StartsWith(stored_hash, <<"$", "6", "$">>) THEN "6"
    ELSE IF StartsWith(stored_hash, <<"$", "5", "$">>) THEN "6"
    ELSE IF StartsWith(stored_hash, <<"$", "1", "$">>) THEN "1"
    ELSE "none"
\* lines 256-263: the verifier chosen by the stored hash's leading marker,
\* "none" when no marker matches.
SelectVerifier(stored_hash) ==
    IF StartsWith(stored_hash, <<"$", "6", "$">>) THEN "6"
    ELSE IF StartsWith(stored_hash, <<"$", "5", "$">>) THEN "5"
    ELSE IF StartsWith(stored_hash, <<"$", "1", "$">>) THEN "1"
    ELSE "none"

\* lines 249-268: the hash fallback
HashFallback(user, password) ==
    IF user.unixhash = None \/ user.unixhash[1] = <<>>
    THEN NoStoredHash
    ELSE LET stored_hash == user.unixhash[1]
             v == SelectVerifier(stored_hash)
         IN  IF v = "none"
             THEN UnsupportedHashFormat
             ELSE LET is_valid == SchemeVerify(v, password, stored_hash)
                  IN  [ (CASE is_valid = "true" -> Ret(JBool(TRUE))
                           [] is_valid = "false" -> WrongPassword
                           [] OTHER -> AuthenticationFailed("ValueError"))
                        EXCEPT !.verifier = v ]

\* Faulty variant of ProbeThenFallback, for contrast: a failed probe rejects the login.
ProbeFinal(user, password, probe) ==
    IF user.smb
    THEN IF probe = "true"
         THEN [Ret(JBool(TRUE)) EXCEPT !.probed = TRUE]
         ELSE [Raise("Invalid username or password", None,
                     Some("Invalid username or password")) EXCEPT !.probed = TRUE]
    ELSE HashFallback(user, password)
\* lines 237-268: the SMB probe, then the fallback.  probe is what the
\* try block of lines 238-246 did: "true" (connected and closed), "false"
\* (connect returned False) or "raise" (any exception inside it).
ProbeThenFallback(user, password, probe) ==
    IF user.smb
    THEN IF probe = "true"
         THEN [Ret(JBool(TRUE)) EXCEPT !.probed = TRUE]
         ELSE [HashFallback(user, password) EXCEPT !.probed = TRUE]
    ELSE HashFallback(user, password)

\* Faulty variant of LoginDecide, for contrast: the decision is taken on a
\* record kept from an earlier call instead of the one just fetched.
FaultyLoginDecide(users, password, otp_token, probe) ==
    IF ~Truthy(users)
    THEN UserNotFound
    ELSE IF users.t # "list"
    THEN AuthenticationFailed("TypeError")
    ELSE IF NeedsOtp(SecondRow, otp_token)
    THEN OtpRequired
    ELSE ProbeThenFallback(SecondRow, password, probe)
\* lines 227-273
LoginDecide(users, password, otp_token, probe) ==
    IF ~Truthy(users)
    THEN UserNotFound
    ELSE IF users.t # "list"
    THEN AuthenticationFailed("TypeError")
    ELSE LET user == users.rows[1]
         IN  IF NeedsOtp(user, otp_token)
             THEN OtpRequired
             ELSE ProbeThenFallback(user, password, probe)

(***************************************************************************)
(* Frames the client reads from the socket.  f is what recv() gave:        *)
(* "raise" (WebSocketException: timeout, peer closed), "empty" (an empty   *)
(* text), "badjson" (not JSON), "nonobject" (JSON, but not an object) or   *)
(* "obj" (a JSON object with the fields below).                            *)
(***************************************************************************)
NoErr == [t |-> "none", reason |-> None, message |-> None, code |-> None]
EmptyDictErr == [NoErr EXCEPT !.t = "dict"]
Errs ==
    { [t |-> "dict", reason |-> Some("Account is locked"), message |-> None,
       code |-> Some(22)],
      [t |-> "dict", reason |-> None, message |-> Some("boom"), code |-> None],
      [t |-> "str", reason |-> None, message |-> Some("oops"), code |-> None] }

NoFrame ==
    [f |-> "none", id |-> NoId, msg |-> "", haserr |-> FALSE, err |-> NoErr,
     result |-> JNull, session |-> None]
BadFrames == { [NoFrame EXCEPT !.f = k] : k \in {"raise", "empty", "badjson", "nonobject"} }
Obj(id, msg) == [NoFrame EXCEPT !.f = "obj", !.id = id, !.msg = msg]

\* The results the appliance may give to a request of each method.
Payloads(method) ==
    CASE method = "user.query" ->
            { JNull, JBool(TRUE), JList(<<>>) }
            \cup { JList(<<u>>) : u \in UserRecords }
            \cup { JList(<<u, SecondRow>>) :
                       u \in {x \in UserRecords : x.smb /\ x.unixhash = None} }
      [] method = "auth.login_with_api_key" -> { JNull, JBool(TRUE), JBool(FALSE) }
      [] OTHER -> { JNull, JBool(TRUE), JDict }

\* The ids a frame may carry while request n is awaited: none, the awaited
\* id, the id of the request before and after it, and the awaited number as
\* a JSON number instead of a string.
OtherIds(n) == { NoId, StrId(n - 1), StrId(n + 1), IntId(n) }

\* Everything the appliance may deliver while request n of the given method
\* is awaited: responses to it, responses and errors under other ids, and
\* server pushes without an id.
Incoming(n, method) ==
    BadFrames
    \cup { [Obj(StrId(n), "result") EXCEPT !.result = v] : v \in Payloads(method) }
    \cup { [Obj(StrId(n), "error") EXCEPT !.haserr = TRUE, !.err = e] : e \in Errs }
    \cup { Obj(StrId(n), "error"),
           [Obj(StrId(n), "result") EXCEPT !.haserr = TRUE, !.err = EmptyDictErr] }
    \cup { [Obj(i, "result") EXCEPT !.result = JDict] : i \in OtherIds(n) }
    \cup { [Obj(i, "error") EXCEPT !.haserr = TRUE, !.err = EmptyDictErr] : i \in OtherIds(n) }
    \cup { Obj(NoId, "added") }

\* Replies to the hello.
Sessions == { None, Some("sess-1") }
HandshakeFrames ==
    BadFrames
    \cup { [Obj(NoId, "connected") EXCEPT !.session = x] : x \in Sessions }
    \cup { [Obj(NoId, m) EXCEPT !.session = Some("sess-1")] : m \in {"failed", "result"} }

(***************************************************************************)
(* TrueNASWebSocketClient._call: matching and decoding of the response.    *)
(***************************************************************************)
\* Faulty variant of IdMatches, for contrast: any result or error envelope ends the wait.
IdMatchesAnyResponse(response, request_id) ==
    response.id = request_id \/ response.msg \in {"result", "error"}
\* line 112 (line 115 adds nothing: it also requires the id to match)
IdMatches(response, request_id) == response.id = request_id

\* lines 119-130
CallResult(response) ==
    IF response.msg = "error" \/ response.haserr
    THEN LET error == IF response.haserr THEN response.err ELSE EmptyDictErr
         IN  IF error.t = "dict"
             THEN Raise(IF error.reason # None THEN error.reason[1]
                        ELSE IF error.message # None THEN error.message[1]
                        ELSE "Unknown error",
                        error.code, error.reason)
             ELSE Raise(error.message[1], None, None)
    ELSE Ret(response.result)

\* Faulty variant of ConnectAck, for contrast: any JSON object acknowledges the hello.
ConnectAckAny(response) == response.f = "obj"
\* line 173
ConnectAck(response) == response.msg = "connected"

(***************************************************************************)
(* State of one TrueNASWebSocketClient and of the thread driving it.       *)
(***************************************************************************)
VARIABLES
    api_key,       \* self._api_key: None or a string
    ws,            \* self._ws: 0 is None, else the id of the socket held
    request_id,    \* self._request_id
    session_id,    \* self._session_id
    open_socks,    \* ids of the sockets opened and not closed
    next_sock,     \* sockets opened so far
    sent,          \* the messages the running (or last finished) operation
                   \* sent, in order, with the socket of each
    pc,            \* "idle", "handshake" (connect awaits the hello's reply)
                   \* or "call" (_call awaits its response)
    cur,           \* the running (or last finished) operation
    outcome,       \* what the last finished operation returned or raised
    last,          \* the frame that ended the operation's last _call
    last_connect,  \* "none", or how the most recent connect ended
    login_called   \* login() was called on this client (history)

wsvars ==
    <<api_key, ws, request_id, session_id, open_socks, next_sock, sent, pc,
      cur, outcome, last, last_connect, login_called>>

(***************************************************************************)
(* State of the Flask routes (app/routes/auth.py, app/routes/password.py).  *)
(***************************************************************************)
VARIABLES
    session,      \* the web session: its 'username' and 'password' keys
    rpc,          \* where the running request stands: "idle", "connect",
                  \* "login", "set_password", "store" or "finally"
    req,          \* the running (or last served) request
    calls,        \* the client calls the request made, in order
    served,       \* the response of the last served request
    web           \* requests received so far

routevars == <<session, rpc, req, calls, served, web>>

(***************************************************************************)
(* State of one TrueNASClient (app/truenas_client.py), and which of the    *)
(* two client classes the program instantiated.                            *)
(***************************************************************************)
VARIABLES
    client_class,    \* "TrueNASWebSocketClient", "TrueNASClient" or
                     \* "TrueNASRestClient"
    legacy_ws,       \* self._ws: 0 is None, else the id of the socket held
    message_id,      \* self._message_id
    auth_token,      \* self._auth_token
    legacy_open,     \* ids of the sockets opened and not closed
    legacy_socks,    \* sockets opened so far
    legacy_sent,     \* the request the last operation sent, if any
    legacy_cur,      \* the last operation
    legacy_outcome,  \* what it returned or raised
    legacy_last      \* the frame it read, if any

legacyvars ==
    <<client_class, legacy_ws, message_id, auth_token, legacy_open,
      legacy_socks, legacy_sent, legacy_cur, legacy_outcome, legacy_last>>

(***************************************************************************)
(* State of one TrueNASRestClient (app/truenas_rest_client.py); its        *)
(* self._api_key is the variable api_key above.                            *)
(***************************************************************************)
VARIABLES
    access_token,    \* self._access_token: None or a string
    rest_auth,       \* the Authorization bearer of self._session: None or a string
    rest_closed,     \* self._session.close() was called since the last request
    rest_cur,        \* the operation called last and its arguments
    rest_outcome,    \* how it ended
    rest_http,       \* the HTTP requests it made, in order
    rest_resp        \* the response it read last

restvars ==
    <<access_token, rest_auth, rest_closed, rest_cur, rest_outcome, rest_http,
      rest_resp>>

(***************************************************************************)
(* State of one connected TrueNASWebSocketClient whose _call is invoked by *)
(* several threads at once.                                                *)
(***************************************************************************)
VARIABLES
    shared_request_id,  \* self._request_id
    lock,               \* self._lock: 0 when free, else the thread holding it
    callers,            \* each thread's place in _call and its locals
    wire,               \* requests the appliance received and has not answered
    inbox,              \* frames on the socket that no recv() has returned yet
    assigned,           \* the ids _call assigned, in order
    discarded           \* the ids of the frames a read loop skipped

concvars == <<shared_request_id, lock, callers, wire, inbox, assigned, discarded>>

Usernames == {"alice"}
OtpTokens == { None, Some(""), Some("123456") }
ApiKeys == { None, Some(""), Some("key-1") }
ProbeOutcomes == {"true", "false", "raise"}

\* Positional parameters of a request, one record shape for every method.
NoParams == [username |-> "", user_id |-> 0, password |-> "", key |-> ""]
\* line 167: the hello
Hello(sock) ==
    [sock |-> sock, msg |-> "connect", id |-> NoId, method |-> "",
     params |-> NoParams]
\* lines 93-98: a method request
Method(sock, id, method, params) ==
    [sock |-> sock, msg |-> "method", id |-> id, method |-> method,
     params |-> params]

\* An operation: its name and arguments, where it stands, and what the
\* environment did to it.  skipped: its running _call discarded a frame;
\* skipped_own: it discarded a frame that carried the id it awaits;
\* hello_reply: the reply connect read to its hello; probe: what the SMB
\* probe did ("" until login decides); users: what set_password's
\* user.query returned (JNull until it did).
NoOp ==
    [op |-> "none", stage |-> "", username |-> "", password |-> "",
     otp_token |-> None, new_password |-> "", method |-> "",
     request_id |-> NoId, hello_reply |-> NoFrame, probe |-> "",
     users |-> JNull, skipped |-> FALSE, skipped_own |-> FALSE]
Op(name) == [NoOp EXCEPT !.op = name]

WsInit ==
    /\ api_key \in IF client_class = "TrueNASClient" THEN {None} ELSE ApiKeys
    /\ ws = 0
    /\ request_id = 0
    /\ session_id = None
    /\ open_socks = {}
    /\ next_sock = 0
    /\ sent = <<>>
    /\ pc = "idle"
    /\ cur = NoOp
    /\ outcome = NoOutcome
    /\ last = NoFrame
    /\ last_connect = "none"
    /\ login_called = FALSE

\* The operation c ends with result out.
Finish(c, out) ==
    /\ pc' = "idle"
    /\ cur' = c
    /\ outcome' = out
    /\ last_connect' = IF c.op = "connect" THEN out.kind ELSE last_connect

\* _call, line 85: a socket is held
FaultyConnected == TRUE
Connected == ws # 0

\* _call, lines 88-90: the next request number
FaultyNextId(n) == n
NextId(n) == n + 1

\* _call, lines 85-101: the connection check, the id and the send.  log is
\* what the operation sent before; sendok is whether self._ws.send returned
\* (it may raise WebSocketException).
StartCall(c, log, method, params, sendok) ==
    IF ~Connected
    THEN /\ Finish(c, Raise("Not connected. Call connect() first.", None, None))
         /\ sent' = log
         /\ UNCHANGED request_id
    ELSE /\ request_id' = NextId(request_id)
         /\ IF sendok
            THEN /\ sent' = Append(log, Method(ws, StrId(NextId(request_id)), method, params))
                 /\ pc' = "call"
                 /\ cur' = [c EXCEPT !.request_id = StrId(NextId(request_id)),
                                     !.method = method, !.skipped = FALSE,
                                     !.skipped_own = FALSE]
                 /\ outcome' = NoOutcome
                 /\ UNCHANGED last_connect
            ELSE /\ Finish(c, Raise("WebSocket error: send", None, None))
                 /\ sent' = log

\* Faulty variant of BootstrapResult, for contrast: the result of the bootstrap login is not read.
BootstrapIgnoresResult(res) ==
    IF res.kind = "raise" THEN res ELSE Ret(JNull)
\* connect, lines 180-182: the result of auth.login_with_api_key decides
BootstrapResult(res) ==
    IF res.kind = "raise" THEN res
    ELSE IF ~Truthy(res.value)
    THEN Raise("API key authentication failed", None, None)
    ELSE Ret(JNull)

\* login, lines 237-246: what the SMB probe may do for the record fetched;
\* the environment has a say only for a record with the smb flag.
ProbeChoices(users) ==
    IF users.t = "list" /\ Len(users.rows) > 0 /\ users.rows[1].smb
    THEN ProbeOutcomes
    ELSE {""}

\* set_password, line 288 (login, line 220): the only precondition the
\* operation itself tests
FaultyApiKeyAndLogin == TruthyStr(api_key) /\ login_called
FaultyHasApiKeyNotNone == api_key # None
HasApiKey == TruthyStr(api_key)

\* set_password, line 295: no such user
FaultyNoSuchUser(users) == users = JNull
NoSuchUser(users) == ~Truthy(users)

\* set_password, line 298: the id of the first row
FaultyUserId(users) == users.rows[Len(users.rows)].id
UserId(users) == users.rows[1].id

\* What the operation c does once its _call ended with res (a raised
\* TrueNASAPIError passes through every operation's handler unchanged).
AfterCall(c, res) ==
    CASE c.op = "call" -> Finish(c, res) /\ UNCHANGED <<request_id, sent>>
      [] c.op = "connect" ->
            \* lines 180-182
            /\ Finish(c, BootstrapResult(res))
            /\ UNCHANGED <<request_id, sent>>
      [] c.op = "login" ->
            \* lines 225-273
            /\ IF res.kind = "raise"
               THEN Finish(c, res)
               ELSE \E probe \in ProbeChoices(res.value) :
                       Finish([c EXCEPT !.probe = probe],
                              LoginDecide(res.value, c.password, c.otp_token, probe))
            /\ UNCHANGED <<request_id, sent>>
      [] c.op = "set_password" /\ c.stage = "query" ->
            \* lines 293-301
            IF res.kind = "raise"
            THEN Finish(c, res) /\ UNCHANGED <<request_id, sent>>
            ELSE IF NoSuchUser(res.value)
            THEN /\ Finish([c EXCEPT !.users = res.value],
                           Raise("User '" \o c.username \o "' not found", None, None))
                 /\ UNCHANGED <<request_id, sent>>
            ELSE IF res.value.t # "list"
            THEN \* users[0] on a value that is no list
                 /\ Finish([c EXCEPT !.users = res.value],
                           Raise("Password change request failed: TypeError", None, None))
                 /\ UNCHANGED <<request_id, sent>>
            ELSE IF res.value.rows = <<>>
            THEN \* users[0] on an empty list
                 /\ Finish([c EXCEPT !.users = res.value],
                           Raise("Password change request failed: IndexError", None, None))
                 /\ UNCHANGED <<request_id, sent>>
            ELSE \E sendok \in BOOLEAN :
                    StartCall([c EXCEPT !.stage = "update", !.users = res.value],
                              sent, "user.update",
                              [NoParams EXCEPT !.user_id = UserId(res.value),
                                               !.password = c.new_password],
                              sendok)
      [] OTHER ->
            \* lines 301-303: the update returned
            /\ Finish(c, IF res.kind = "raise" THEN res ELSE Ret(JBool(TRUE)))
            /\ UNCHANGED <<request_id, sent>>

(***************************************************************************)
(* The operations of TrueNASWebSocketClient.                               *)
(***************************************************************************)
\* connect, lines 152-167: open the socket and send the hello.
\* opened: what create_connection did; sendok: whether the send returned.
Connect ==
    /\ client_class = "TrueNASWebSocketClient"
    /\ pc = "idle"
    /\ next_sock < MaxSock
    /\ TruthyStr(api_key) => request_id < MaxReq
    /\ last' = NoFrame
    /\ \E opened \in {"ok", "WebSocketException", "OSError"}, sendok \in BOOLEAN :
          IF opened # "ok"
          THEN /\ Finish(Op("connect"),
                         Raise(IF opened = "WebSocketException"
                               THEN "Failed to connect: " \o opened
                               ELSE "Connection failed: " \o opened, None, None))
               /\ sent' = <<>>
               /\ UNCHANGED <<ws, open_socks, next_sock>>
          ELSE /\ ws' = next_sock + 1
               /\ next_sock' = next_sock + 1
               /\ open_socks' = open_socks \cup {next_sock + 1}
               /\ IF sendok
                  THEN /\ sent' = <<Hello(next_sock + 1)>>
                       /\ pc' = "handshake"
                       /\ cur' = Op("connect")
                       /\ outcome' = NoOutcome
                       /\ UNCHANGED last_connect
                  ELSE /\ Finish(Op("connect"),
                                 Raise("Failed to connect: send", None, None))
                       /\ sent' = <<>>
    /\ UNCHANGED <<routevars, legacyvars, restvars, concvars, api_key, request_id, session_id, login_called>>

\* connect, lines 170-191: read the hello's reply, store the session and
\* log in with the API key when one is configured.
ConnectRecv ==
    /\ client_class = "TrueNASWebSocketClient"
    /\ pc = "handshake"
    /\ \E response \in HandshakeFrames, sendok \in BOOLEAN :
          /\ last' = response
          /\ LET c == [cur EXCEPT !.hello_reply = response]
             IN  IF response.f # "obj"
                 THEN /\ Finish(c, Raise(CASE response.f = "raise" -> "Failed to connect: recv"
                                           [] response.f = "nonobject" -> "Connection failed: AttributeError"
                                           [] OTHER -> "Invalid response during connect",
                                         None, None))
                      /\ UNCHANGED <<request_id, sent, session_id>>
                 ELSE IF ~ConnectAck(response)
                 THEN /\ Finish(c, Raise("Connect handshake failed", None, None))
                      /\ UNCHANGED <<request_id, sent, session_id>>
                 ELSE /\ session_id' = response.session
                      /\ IF TruthyStr(api_key)
                         THEN StartCall(c, sent, "auth.login_with_api_key",
                                        [NoParams EXCEPT !.key = api_key[1]], sendok)
                         ELSE /\ Finish(c, Ret(JNull))
                              /\ UNCHANGED <<request_id, sent>>
    /\ UNCHANGED <<routevars, legacyvars, restvars, concvars, api_key, ws, open_socks, next_sock, login_called>>

\* _call, lines 104-139: one recv() of the read loop.
CallRecv ==
    /\ client_class = "TrueNASWebSocketClient"
    /\ pc = "call"
    /\ \E response \in Incoming(cur.request_id.n, cur.method) :
          IF response.f # "obj"
          THEN /\ last' = response
               /\ AfterCall(cur, Raise(CASE response.f = "raise" -> "WebSocket error: recv"
                                         [] response.f = "empty" -> "Empty response from server"
                                         [] response.f = "badjson" -> "Invalid JSON response"
                                         [] OTHER -> "API call failed: AttributeError",
                                       None, None))
          ELSE IF IdMatches(response, cur.request_id)
          THEN /\ last' = response
               /\ AfterCall(cur, CallResult(response))
          ELSE /\ cur' = [cur EXCEPT !.skipped = TRUE,
                                     !.skipped_own = @ \/ response.id = cur.request_id]
               /\ UNCHANGED <<request_id, sent, pc, outcome, last, last_connect>>
    /\ UNCHANGED <<routevars, legacyvars, restvars, concvars, api_key, ws, session_id, open_socks, next_sock, login_called>>

\* _call invoked directly
Call ==
    /\ client_class = "TrueNASWebSocketClient"
    /\ pc = "idle"
    /\ request_id < MaxReq
    /\ last' = NoFrame
    /\ \E sendok \in BOOLEAN :
          StartCall(Op("call"), <<>>, "core.ping", NoParams, sendok)
    /\ UNCHANGED <<routevars, legacyvars, restvars, concvars, api_key, ws, session_id, open_socks, next_sock, login_called>>

\* login, lines 220-225
Login ==
    /\ client_class = "TrueNASWebSocketClient"
    /\ pc = "idle"
    /\ request_id < MaxReq
    /\ last' = NoFrame
    /\ \E username \in Usernames, password \in Passwords, otp_token \in OtpTokens,
          sendok \in BOOLEAN :
          LET c == [Op("login") EXCEPT !.username = username, !.password = password,
                                       !.otp_token = otp_token]
          IN  IF ~TruthyStr(api_key)
              THEN /\ Finish(c, Raise("API key required for password verification", None, None))
                   /\ sent' = <<>>
                   /\ UNCHANGED request_id
              ELSE StartCall(c, <<>>, "user.query",
                             [NoParams EXCEPT !.username = username], sendok)
    /\ login_called' = TRUE
    /\ UNCHANGED <<routevars, legacyvars, restvars, concvars, api_key, ws, session_id, open_socks, next_sock>>

\* set_password, lines 288-293
SetPassword ==
    /\ client_class = "TrueNASWebSocketClient"
    /\ pc = "idle"
    /\ request_id + 1 < MaxReq
    /\ last' = NoFrame
    /\ \E username \in Usernames, new_password \in Passwords, sendok \in BOOLEAN :
          LET c == [Op("set_password") EXCEPT !.username = username, !.stage = "query",
                                              !.new_password = new_password]
          IN  IF ~HasApiKey
              THEN /\ Finish(c, Raise("Not authenticated. API key required.", None, None))
                   /\ sent' = <<>>
                   /\ UNCHANGED request_id
              ELSE StartCall(c, <<>>, "user.query",
                             [NoParams EXCEPT !.username = username], sendok)
    /\ UNCHANGED <<routevars, legacyvars, restvars, concvars, api_key, ws, session_id, open_socks, next_sock, login_called>>

\* disconnect, lines 195-200.  closed: whether close() closed the socket
\* (when it raises, the exception is swallowed and the socket may stay open).
Disconnect ==
    /\ client_class = "TrueNASWebSocketClient"
    /\ pc = "idle"
    /\ last' = NoFrame
    /\ sent' = <<>>
    /\ \E closed \in BOOLEAN :
          open_socks' = IF ws # 0 /\ closed THEN open_socks \ {ws} ELSE open_socks
    /\ ws' = 0
    /\ Finish(Op("disconnect"), Ret(JNull))
    /\ UNCHANGED <<routevars, legacyvars, restvars, concvars, api_key, request_id, session_id, next_sock, login_called>>

WsNext ==
    \/ Connect
    \/ ConnectRecv
    \/ CallRecv
    \/ Call
    \/ Login
    \/ SetPassword
    \/ Disconnect

(***************************************************************************)
(* TrueNASClient (app/truenas_client.py), the direct-envelope client.      *)
(* Each of its operations sends at most one request and reads at most one  *)
(* frame, so each is one step.                                             *)
(***************************************************************************)
\* An exception that is no TrueNASAPIError and that no handler catches.
Propagate(exc) == [NoOutcome EXCEPT !.kind = "exception", !.message = exc]

\* The error member of a response: absent, a string, or an object with an
\* optional message and an optional data object (its error, reason and
\* errname members; has_reason tells an absent reason from a null one).
LegacyNoData ==
    [t |-> "absent", error |-> None, has_reason |-> FALSE, reason |-> None,
     errname |-> None]
LegacyNoErr == [t |-> "none", message |-> None, data |-> LegacyNoData]
LegacyErrs ==
    { [t |-> "dict", message |-> Some("boom"), data |-> LegacyNoData],
      [t |-> "dict", message |-> Some("locked"),
       data |-> [t |-> "dict", error |-> Some(22), has_reason |-> TRUE,
                 reason |-> Some("Account is locked"), errname |-> Some("EINVAL")]],
      [t |-> "dict", message |-> None,
       data |-> [t |-> "dict", error |-> Some(13), has_reason |-> FALSE,
                 reason |-> None, errname |-> Some("EACCES")]],
      [t |-> "dict", message |-> Some("denied"),
       data |-> [t |-> "dict", error |-> None, has_reason |-> TRUE,
                 reason |-> None, errname |-> Some("EPERM")]],
      [t |-> "str", message |-> Some("oops"), data |-> LegacyNoData] }

LegacyNoFrame ==
    [f |-> "none", id |-> NoId, msg |-> "", haserr |-> FALSE,
     err |-> LegacyNoErr, result |-> JNull]
LegacyBadFrames ==
    { [LegacyNoFrame EXCEPT !.f = k] : k \in {"raise", "empty", "badjson", "nonobject"} }
LegacyObj(id) == [LegacyNoFrame EXCEPT !.f = "obj", !.id = id]

\* The results the appliance may give to a request of each method.
LegacyPayloads(method) ==
    CASE method = "auth.login" -> { JNull, JBool(TRUE), JBool(FALSE), JStr }
      [] method = "user.set_password" -> { JNull, JBool(TRUE), JBool(FALSE), JDict }
      [] OTHER -> { JNull, JDict }

\* Everything the appliance may deliver after request n was sent: its
\* response, a response or an error under another id (the request before,
\* or the number as a JSON string), or a server push without an id.
LegacyIncoming(n, method) ==
    LegacyBadFrames
    \cup { [LegacyObj(IntId(n)) EXCEPT !.result = v] : v \in LegacyPayloads(method) }
    \cup { [LegacyObj(IntId(n)) EXCEPT !.haserr = TRUE, !.err = e] : e \in LegacyErrs }
    \cup { [LegacyObj(i) EXCEPT !.result = JBool(TRUE)] : i \in {NoId, IntId(n - 1), StrId(n)} }
    \cup { [LegacyObj(IntId(n - 1)) EXCEPT !.haserr = TRUE, !.err = e] :
              e \in {x \in LegacyErrs : x.message = Some("locked")} }
    \cup { [LegacyObj(NoId) EXCEPT !.msg = "added"] }

\* What a _call meets: its send raises (no frame is read), or it goes
\* through and one of the frames above is read.
LegacyExchanges(n, method) ==
    { [sendok |-> FALSE, response |-> LegacyNoFrame] }
    \cup { [sendok |-> TRUE, response |-> r] : r \in LegacyIncoming(n, method) }

\* The first frame of a new connection.
LegacyGreetings ==
    LegacyBadFrames
    \cup { [LegacyObj(NoId) EXCEPT !.msg = m] : m \in {"connected", "failed", ""} }

LegacyNoParams == [username |-> "", password |-> "", otp_token |-> None, new_password |-> ""]
\* lines 112-119: the request
LegacyRequest(sock, id, method, params) ==
    [sock |-> sock, id |-> id, method |-> method, params |-> params]

LegacyNoOp ==
    [op |-> "none", username |-> "", password |-> "", otp_token |-> None,
     new_password |-> "", method |-> "", request_id |-> NoId]
LegacyOp(name) == [LegacyNoOp EXCEPT !.op = name]

\* __init__, lines 31-36
LegacyInit ==
    /\ client_class \in {"TrueNASWebSocketClient", "TrueNASClient", "TrueNASRestClient"}
    /\ legacy_ws = 0
    /\ message_id = 0
    /\ auth_token = None
    /\ legacy_open = {}
    /\ legacy_socks = 0
    /\ legacy_sent = <<>>
    /\ legacy_cur = LegacyNoOp
    /\ legacy_outcome = NoOutcome
    /\ legacy_last = LegacyNoFrame

\* _get_next_id, lines 53-54
FaultyLegacyNextId(n) == n
LegacyNextId(n) == n + 1

\* _call, line 109
LegacyConnected == legacy_ws # 0

\* _call, lines 126-133: the TrueNASAPIError built from an error object
FaultyLegacyApiError(error) ==
    Raise(IF error.message # None THEN error.message[1] ELSE "Unknown error",
          error.data.error, error.data.reason)
LegacyApiError(error) ==
    Raise(IF error.message # None THEN error.message[1] ELSE "Unknown error",
          error.data.error,
          IF error.data.has_reason THEN error.data.reason ELSE error.data.errname)

\* _call, lines 121-140, once the request is built: what the call returns or
\* raises when the send succeeds or not and the frame read is response.
LegacyCallResult(sendok, response) ==
    IF ~sendok THEN Raise("WebSocket error: send", None, None)
    ELSE CASE response.f = "raise" -> Raise("WebSocket error: recv", None, None)
           [] response.f \in {"empty", "badjson"} -> Raise("Invalid JSON response", None, None)
           [] response.f = "nonobject" -> Propagate("AttributeError")
           [] response.haserr ->
                 IF response.err.t = "dict" THEN LegacyApiError(response.err)
                 ELSE Propagate("AttributeError")
           [] OTHER -> Ret(response.result)

\* _call, lines 109-140: what _call hands to the operation that made it
LegacyCallOutcome(sendok, response) ==
    IF ~LegacyConnected THEN Raise("Not connected to TrueNAS", None, None)
    ELSE LegacyCallResult(sendok, response)

\* _call, lines 109-123: the connection check, the id, the send and the one
\* recv, made by the operation c.
LegacyCallEffects(c, method, params, sendok, response) ==
    IF ~LegacyConnected
    THEN /\ legacy_cur' = c
         /\ legacy_sent' = <<>>
         /\ legacy_last' = LegacyNoFrame
         /\ UNCHANGED message_id
    ELSE /\ message_id' = LegacyNextId(message_id)
         /\ legacy_cur' = [c EXCEPT !.method = method,
                                    !.request_id = IntId(LegacyNextId(message_id))]
         /\ legacy_sent' =
               IF sendok
               THEN <<LegacyRequest(legacy_ws, IntId(LegacyNextId(message_id)), method, params)>>
               ELSE <<>>
         /\ legacy_last' = IF sendok THEN response ELSE LegacyNoFrame

\* connect, lines 62-84
LegacyConnect ==
    /\ client_class = "TrueNASClient"
    /\ legacy_socks < MaxSock
    /\ legacy_cur' = LegacyOp("connect")
    /\ legacy_sent' = <<>>
    /\ \E opened \in {"ok", "WebSocketException", "OSError"}, response \in LegacyGreetings :
          IF opened # "ok"
          THEN /\ legacy_outcome' =
                     IF opened = "WebSocketException"
                     THEN Raise("WebSocket connection failed: " \o opened, None, None)
                     ELSE Propagate(opened)
               /\ legacy_last' = LegacyNoFrame
               /\ UNCHANGED <<legacy_ws, legacy_open, legacy_socks>>
          ELSE /\ legacy_ws' = legacy_socks + 1
               /\ legacy_socks' = legacy_socks + 1
               /\ legacy_open' = legacy_open \cup {legacy_socks + 1}
               /\ legacy_last' = response
               /\ legacy_outcome' =
                     CASE response.f = "raise" ->
                             Raise("WebSocket connection failed: recv", None, None)
                       [] response.f \in {"empty", "badjson"} ->
                             Raise("Invalid response from TrueNAS", None, None)
                       [] response.f = "nonobject" -> Propagate("AttributeError")
                       [] response.msg # "connected" ->
                             Raise("Failed to establish connection with TrueNAS", None, None)
                       [] OTHER -> Ret(JNull)
    /\ UNCHANGED <<wsvars, routevars, restvars, concvars, client_class, message_id, auth_token>>

\* disconnect, lines 88-94.  closed: whether close() closed the socket (when
\* it raises, the exception is swallowed and the socket may stay open).
FaultyLegacyDisconnect ==
    /\ client_class = "TrueNASClient"
    /\ legacy_cur' = LegacyOp("disconnect")
    /\ legacy_sent' = <<>>
    /\ legacy_last' = LegacyNoFrame
    /\ \E closed \in BOOLEAN :
          /\ legacy_open' = IF LegacyConnected /\ closed THEN legacy_open \ {legacy_ws}
                            ELSE legacy_open
          /\ legacy_ws' = IF closed THEN 0 ELSE legacy_ws
          /\ legacy_outcome' = IF LegacyConnected /\ ~closed THEN Propagate("WebSocketException")
                               ELSE Ret(JNull)
    /\ auth_token' = None
    /\ UNCHANGED <<wsvars, routevars, restvars, concvars, client_class, message_id, legacy_socks>>
LegacyDisconnect ==
    /\ client_class = "TrueNASClient"
    /\ legacy_cur' = LegacyOp("disconnect")
    /\ legacy_sent' = <<>>
    /\ legacy_last' = LegacyNoFrame
    /\ \E closed \in BOOLEAN :
          legacy_open' = IF LegacyConnected /\ closed THEN legacy_open \ {legacy_ws}
                         ELSE legacy_open
    /\ legacy_ws' = 0
    /\ auth_token' = None
    /\ legacy_outcome' = Ret(JNull)
    /\ UNCHANGED <<wsvars, routevars, restvars, concvars, client_class, message_id, legacy_socks>>

\* _call invoked directly
LegacyCall ==
    /\ client_class = "TrueNASClient"
    /\ message_id < MaxReq
    /\ \E x \in LegacyExchanges(message_id + 1, "core.ping") :
          /\ LegacyCallEffects(LegacyOp("call"), "core.ping", LegacyNoParams,
                               x.sendok, x.response)
          /\ legacy_outcome' = LegacyCallOutcome(x.sendok, x.response)
    /\ UNCHANGED <<wsvars, routevars, restvars, concvars, client_class, legacy_ws, auth_token,
                   legacy_open, legacy_socks>>

\* is_authenticated, lines 210-217
LegacyIsAuthenticated == auth_token # None

\* set_password, line 181, and get_current_user, line 196: a token is held
FaultyLegacyAuthenticated == TRUE
LegacyAuthenticated == TruthyStr(auth_token)

\* login, lines 156-166
LegacyLogin ==
    /\ client_class = "TrueNASClient"
    /\ message_id < MaxReq
    /\ \E username \in Usernames, password \in {"pw1"},
          otp_token \in {None, Some("123456")},
          x \in LegacyExchanges(message_id + 1, "auth.login") :
          LET res == LegacyCallOutcome(x.sendok, x.response)
          IN
          /\ LegacyCallEffects(
                [LegacyOp("login") EXCEPT !.username = username, !.password = password,
                                          !.otp_token = otp_token],
                "auth.login",
                [LegacyNoParams EXCEPT !.username = username, !.password = password,
                                       !.otp_token = IF TruthyStr(otp_token)
                                                     THEN otp_token ELSE None],
                x.sendok, x.response)
          /\ IF res.kind = "return" /\ Truthy(res.value)
             THEN /\ auth_token' = Some(IF res.value.t = "str" THEN "token" ELSE username)
                  /\ legacy_outcome' = Ret(JBool(TRUE))
             ELSE /\ UNCHANGED auth_token
                  /\ legacy_outcome' =
                        IF res.kind = "return"
                        THEN Raise("Authentication failed", None, Some("Invalid credentials"))
                        ELSE res
    /\ UNCHANGED <<wsvars, routevars, restvars, concvars, client_class, legacy_ws, legacy_open, legacy_socks>>

\* set_password, lines 181-185
LegacySetPassword ==
    /\ client_class = "TrueNASClient"
    /\ message_id < MaxReq
    /\ \E username \in Usernames, new_password \in {"pw2"},
          x \in LegacyExchanges(message_id + 1, "user.set_password") :
          LET c == [LegacyOp("set_password") EXCEPT !.username = username,
                                                    !.new_password = new_password]
              res == LegacyCallOutcome(x.sendok, x.response)
          IN  IF ~LegacyAuthenticated
              THEN /\ legacy_outcome' = Raise("Not authenticated", None, Some("Must login first"))
                   /\ legacy_cur' = c
                   /\ legacy_sent' = <<>>
                   /\ legacy_last' = LegacyNoFrame
                   /\ UNCHANGED message_id
              ELSE /\ LegacyCallEffects(c, "user.set_password",
                                        [LegacyNoParams EXCEPT !.username = username,
                                                               !.new_password = new_password],
                                        x.sendok, x.response)
                   /\ legacy_outcome' =
                         IF res.kind = "return"
                         THEN Ret(JBool(res.value \in {JBool(TRUE), JNull}))
                         ELSE res
    /\ UNCHANGED <<wsvars, routevars, restvars, concvars, client_class, legacy_ws, auth_token,
                   legacy_open, legacy_socks>>

\* get_current_user, lines 196-199
LegacyGetCurrentUser ==
    /\ client_class = "TrueNASClient"
    /\ message_id < MaxReq
    /\ \E x \in LegacyExchanges(message_id + 1, "auth.me") :
          IF ~LegacyAuthenticated
          THEN /\ legacy_outcome' = Raise("Not authenticated", None, Some("Must login first"))
               /\ legacy_cur' = LegacyOp("get_current_user")
               /\ legacy_sent' = <<>>
               /\ legacy_last' = LegacyNoFrame
               /\ UNCHANGED message_id
          ELSE /\ LegacyCallEffects(LegacyOp("get_current_user"), "auth.me",
                                    LegacyNoParams, x.sendok, x.response)
               /\ legacy_outcome' = LegacyCallOutcome(x.sendok, x.response)
    /\ UNCHANGED <<wsvars, routevars, restvars, concvars, client_class, legacy_ws, auth_token,
                   legacy_open, legacy_socks>>

LegacyNext ==
    \/ LegacyConnect
    \/ LegacyDisconnect
    \/ LegacyCall
    \/ LegacyLogin
    \/ LegacySetPassword
    \/ LegacyGetCurrentUser

(***************************************************************************)
(* The Flask routes.  The client a route creates is the environment here:  *)
(* each of its methods returns or raises, as the appliance decides.        *)
(***************************************************************************)
FormUsernames == {"", "alice", "bob"}
FormPasswords == {"", "pw1", "pw2"}
ClientResults == {"ok", "TrueNASAPIError", "Exception"}

EmptySession == [username |-> None, password |-> None]
NoRequest ==
    [route |-> "none", method |-> "GET", username |-> "", password |-> "",
     current_password |-> "", new_password |-> "", confirm_password |-> ""]
NoResponse == [kind |-> "none", target |-> "", flash |-> <<>>]
Redirect(target, flash) == [kind |-> "redirect", target |-> target, flash |-> flash]
Render(page, flash) == [kind |-> "render", target |-> page, flash |-> flash]

\* One call on the request's client: the method, its arguments, its result.
ClientCall(fn, a, b, res) == [fn |-> fn, a |-> a, b |-> b, res |-> res]

LoginRequests ==
    { [NoRequest EXCEPT !.route = "login", !.method = m, !.username = u, !.password = p] :
         m \in {"GET", "POST"}, u \in FormUsernames, p \in FormPasswords }
ChangeRequests ==
    { [NoRequest EXCEPT !.route = "change", !.method = m, !.current_password = c,
                        !.new_password = n, !.confirm_password = k] :
         m \in {"GET", "POST"}, c \in FormPasswords, n \in FormPasswords,
         k \in {"", "pw1"} }

\* forms.py, LoginForm (lines 9-16): both fields required
LoginFormValid(r) == r.username # "" /\ r.password # ""
\* forms.py, PasswordChangeForm (lines 22-33): all required, confirm equal
PasswordChangeFormValid(r) ==
    /\ r.current_password # ""
    /\ r.new_password # ""
    /\ r.confirm_password # ""
    /\ r.confirm_password = r.new_password

RouteInit ==
    /\ session = EmptySession
    /\ rpc = "idle"
    /\ req = NoRequest
    /\ calls = <<>>
    /\ served = NoResponse
    /\ web = 0

\* A request arrives.
Receive(r) ==
    /\ rpc = "idle"
    /\ web < MaxWeb
    /\ web' = web + 1
    /\ req' = r
    /\ calls' = <<>>
    /\ UNCHANGED <<wsvars, legacyvars, restvars, concvars>>

\* auth.py, index (lines 24-29)
Index ==
    /\ Receive([NoRequest EXCEPT !.route = "index"])
    /\ served' = IF session.username # None THEN Redirect("password.change", <<>>)
                   ELSE Redirect("auth.login", <<>>)
    /\ UNCHANGED <<session, rpc>>

\* auth.py, logout (lines 66-71)
FaultyLogout ==
    /\ Receive([NoRequest EXCEPT !.route = "logout"])
    /\ served' = Redirect("auth.login", <<"You have been logged out.">>)
    /\ UNCHANGED <<session, rpc>>
Logout ==
    /\ Receive([NoRequest EXCEPT !.route = "logout"])
    /\ session' = EmptySession
    /\ served' = Redirect("auth.login", <<"You have been logged out.">>)
    /\ UNCHANGED rpc

\* auth.py, login (lines 32-41): the form, then the client is created
FaultyAuthLogin ==
    \E r \in LoginRequests :
       /\ Receive(r)
       /\ IF r.method = "POST" /\ LoginFormValid(r)
          THEN rpc' = "connect" /\ served' = NoResponse
          ELSE rpc' = "idle" /\ served' = Render("login.html", <<>>)
       /\ session' = EmptySession
AuthLogin ==
    \E r \in LoginRequests :
       /\ Receive(r)
       /\ IF r.method = "POST" /\ LoginFormValid(r)
          THEN rpc' = "connect" /\ served' = NoResponse
          ELSE rpc' = "idle" /\ served' = Render("login.html", <<>>)
       /\ UNCHANGED session

\* password.py, line 57: the submitted current password is the session's
FaultyCurrentPasswordMatches(r) == TRUE
CurrentPasswordMatches(r) == Some(r.current_password) = session.password

\* password.py, login_required and change (lines 36-61)
PasswordChange ==
    \E r \in ChangeRequests :
       /\ Receive(r)
       /\ IF session.username = None
          THEN /\ rpc' = "idle"
               /\ served' = Redirect("auth.login", <<"Please log in to access this page.">>)
          ELSE IF r.method = "POST" /\ PasswordChangeFormValid(r)
          THEN IF ~CurrentPasswordMatches(r)
               THEN /\ rpc' = "idle"
                    /\ served' = Render("change_password.html",
                                          <<"Current password is incorrect.">>)
               ELSE rpc' = "connect" /\ served' = NoResponse
          ELSE rpc' = "idle" /\ served' = Render("change_password.html", <<>>)
       /\ UNCHANGED session

\* The except clauses of both routes (auth.py 56-59, password.py 76-79):
\* the flash, then the finally clause.
Except(res) ==
    /\ rpc' = "finally"
    /\ served' =
          Render(IF req.route = "login" THEN "login.html" ELSE "change_password.html",
                 <<IF res = "TrueNASAPIError"
                   THEN (IF req.route = "login" THEN "Login failed" ELSE "Password change failed")
                   ELSE (IF req.route = "login" THEN "Connection error" ELSE "Error")>>)

\* The username the request acts for: the form's in the login route (auth.py
\* line 38), the session's in the change route (password.py line 50).
FaultyRouteUsername == req.username
RouteUsername == IF req.route = "login" THEN req.username ELSE session.username[1]
\* Faulty variant of RoutePassword, for contrast: the change route verifies the new password.
RoutePasswordNew == IF req.route = "login" THEN req.password ELSE req.new_password
\* The password given to client.login (auth.py 39, password.py 53)
RoutePassword == IF req.route = "login" THEN req.password ELSE req.current_password

\* client.connect() (auth.py 44, password.py 64)
RouteConnect ==
    /\ rpc = "connect"
    /\ \E res \in ClientResults :
          /\ calls' = Append(calls, ClientCall("connect", "", "", res))
          /\ IF res = "ok" THEN rpc' = "login" /\ UNCHANGED served ELSE Except(res)
    /\ UNCHANGED <<wsvars, legacyvars, restvars, concvars, session, req, web>>

\* client.login(username, password) (auth.py 45, password.py 65)
RouteLogin ==
    /\ rpc = "login"
    /\ \E res \in ClientResults :
          /\ calls' = Append(calls, ClientCall("login", RouteUsername, RoutePassword, res))
          /\ IF res = "ok"
             THEN /\ rpc' = IF req.route = "login" THEN "store" ELSE "set_password"
                  /\ UNCHANGED served
             ELSE Except(res)
    /\ UNCHANGED <<wsvars, legacyvars, restvars, concvars, session, req, web>>

\* client.set_password(username, new_password) (password.py 66)
RouteSetPassword ==
    /\ rpc = "set_password"
    /\ \E res \in ClientResults :
          /\ calls' = Append(calls, ClientCall("set_password", RouteUsername,
                                              req.new_password, res))
          /\ IF res = "ok" THEN rpc' = "store" /\ UNCHANGED served ELSE Except(res)
    /\ UNCHANGED <<wsvars, legacyvars, restvars, concvars, session, req, web>>

\* The session write, the disconnect inside the try block and the redirect
\* (auth.py 48-54, password.py 69-74).
RouteStore ==
    /\ rpc = "store"
    /\ session' = IF req.route = "login"
                  THEN [username |-> Some(req.username), password |-> Some(req.password)]
                  ELSE [session EXCEPT !.password = Some(req.new_password)]
    /\ \E res \in {"ok", "Exception"} :
          /\ calls' = Append(calls, ClientCall("disconnect", "", "", res))
          /\ IF res = "ok"
             THEN /\ rpc' = "finally"
                  /\ served' = Redirect("password.change",
                                          <<IF req.route = "login" THEN "Login successful!"
                                            ELSE "Password changed successfully!">>)
             ELSE Except(res)
    /\ UNCHANGED <<wsvars, legacyvars, restvars, concvars, req, web>>

\* The finally clause (auth.py 60-61, password.py 80-81); an exception of
\* this disconnect leaves the route.
FaultyRouteFinally ==
    /\ rpc = "finally"
    /\ rpc' = "idle"
    /\ UNCHANGED <<wsvars, legacyvars, restvars, concvars, session, req, web, calls, served>>
RouteFinally ==
    /\ rpc = "finally"
    /\ \E res \in {"ok", "Exception"} :
          /\ calls' = Append(calls, ClientCall("disconnect", "", "", res))
          /\ served' = IF res = "ok" THEN served
                         ELSE [kind |-> "error", target |-> "500", flash |-> served.flash]
    /\ rpc' = "idle"
    /\ UNCHANGED <<wsvars, legacyvars, restvars, concvars, session, req, web>>

RouteNext ==
    \/ Index
    \/ Logout
    \/ AuthLogin
    \/ PasswordChange
    \/ RouteConnect
    \/ RouteLogin
    \/ RouteSetPassword
    \/ RouteStore
    \/ RouteFinally

(***************************************************************************)
(* Specifications: one client of either class, and the routes.            *)
(***************************************************************************)
(***************************************************************************)
(* TrueNASRestClient (app/truenas_rest_client.py).  Every operation makes  *)
(* its HTTP requests and reads their responses before it returns, so each  *)
(* is one step; the appliance's responses are the environment's choice.    *)
(***************************************************************************)
\* An HTTP response as the client reads it.  ok: the request returned (it
\* may raise a requests exception instead); json: what response.json()
\* gives ("badjson" when it raises, "list", "dict"); token: the body's
\* access_token member (None when absent or null); users: the body's list.
RestNoResponse ==
    [ok |-> FALSE, status |-> "", json |-> "none", token |-> None, users |-> <<>>,
     text |-> ""]
RestStatuses == {"200", "401", "403", "500"}
RestFailure == [RestNoResponse EXCEPT !.json = "raise"]
RestReply(status) == [RestNoResponse EXCEPT !.ok = TRUE, !.status = status]
RestTokens == { None, Some(""), Some("tok-1") }
\* responses of POST /auth/generate_token
TokenResponses ==
    {RestFailure}
    \cup { [RestReply(s) EXCEPT !.json = j] : s \in RestStatuses, j \in {"badjson", "list"} }
    \cup { [RestReply(s) EXCEPT !.json = "dict", !.token = t] :
              s \in RestStatuses, t \in RestTokens }
\* responses of GET /user: rows with a username and an id (None when the
\* row has no id member)
RestUserLists ==
    { <<>>,
      << [username |-> "alice", id |-> Some(7)] >>,
      << [username |-> "bob", id |-> Some(8)], [username |-> "alice", id |-> Some(7)] >>,
      << [username |-> "alice2", id |-> Some(9)] >>,
      << [username |-> "alice", id |-> None] >> }
UserListResponses ==
    {RestFailure}
    \cup { [RestReply(s) EXCEPT !.json = "badjson"] : s \in RestStatuses }
    \cup { [RestReply(s) EXCEPT !.json = "list", !.users = u] :
              s \in {"200", "401"}, u \in RestUserLists }
\* responses of PUT /user/id/{id} and of GET /system/info
PlainResponses ==
    {RestFailure} \cup { [RestReply(s) EXCEPT !.text = "body"] : s \in RestStatuses }

\* An HTTP request: the verb, the endpoint, the Authorization bearer of the
\* session that sent it and the JSON body's members.
RestRequest(verb, endpoint, auth) ==
    [verb |-> verb, endpoint |-> endpoint, auth |-> auth, username |-> "",
     password |-> "", user_id |-> None]

\* users: the rows set_password read from GET /user (none until it has)
RestNoOp ==
    [op |-> "none", username |-> "", password |-> "", new_password |-> "",
     users |-> <<>>]
RestOp(name) == [RestNoOp EXCEPT !.op = name]

\* __init__, lines 43-52
RestInit ==
    /\ access_token = None
    /\ rest_auth = IF TruthyStr(api_key) THEN api_key ELSE None
    /\ rest_closed = FALSE
    /\ rest_cur = RestNoOp
    /\ rest_outcome = NoOutcome
    /\ rest_http = <<>>
    /\ rest_resp = RestNoResponse

\* connect, lines 76-89
RestConnect ==
    /\ client_class = "TrueNASRestClient"
    /\ rest_cur' = RestOp("connect")
    /\ rest_http' = << RestRequest("GET", "/system/info", rest_auth) >>
    /\ rest_closed' = FALSE
    /\ \E response \in PlainResponses :
          /\ rest_resp' = response
          /\ rest_outcome' =
                IF ~response.ok
                THEN Raise("Connection failed: ConnectionError", None, None)
                ELSE IF response.status \notin {"200", "401", "403"}
                THEN Raise("Failed to connect to TrueNAS: HTTP " \o response.status,
                           None, None)
                ELSE Ret(JNull)
    /\ UNCHANGED <<wsvars, legacyvars, routevars, concvars, access_token, rest_auth>>

\* disconnect, lines 93-95
RestDisconnect ==
    /\ client_class = "TrueNASRestClient"
    /\ rest_cur' = RestOp("disconnect")
    /\ rest_http' = <<>>
    /\ rest_resp' = RestNoResponse
    /\ rest_closed' = TRUE
    /\ access_token' = None
    /\ rest_outcome' = Ret(JNull)
    /\ UNCHANGED <<wsvars, legacyvars, routevars, concvars, rest_auth>>

\* login, lines 143-166: what the token endpoint's response makes of the
\* login
FaultyRestLoginOutcome(response) ==
    IF TruthyStr(api_key)
    THEN Ret(JBool(TRUE))
    ELSE IF response.ok /\ response.status = "200" /\ response.json = "dict"
            /\ TruthyStr(response.token)
    THEN Ret(JBool(TRUE))
    ELSE Raise("Invalid username or password", None, None)
RestLoginOutcome(response) ==
    IF ~response.ok
    THEN Raise("Authentication failed: ConnectionError", None, None)
    ELSE IF response.status = "200"
    THEN IF response.json = "badjson"
         THEN Raise("Authentication failed: ValueError", None, None)
         ELSE IF response.json # "dict"
         THEN Raise("Authentication failed: AttributeError", None, None)
         ELSE IF ~TruthyStr(response.token)
         THEN Raise("No access token in response", None, None)
         ELSE Ret(JBool(TRUE))
    ELSE Raise("Invalid username or password", None, None)

\* login, lines 120-166.  The request goes out on a session of its own that
\* carries no Authorization header (lines 124-140); line 145 stores the
\* body's access_token before line 146 tests it.
RestLogin ==
    /\ client_class = "TrueNASRestClient"
    /\ \E username \in Usernames, password \in Passwords, otp_token \in OtpTokens,
          response \in TokenResponses :
          /\ rest_cur' = [RestOp("login") EXCEPT !.username = username,
                                                 !.password = password]
          /\ rest_http' =
                << [RestRequest("POST", "/auth/generate_token", None)
                       EXCEPT !.username = username, !.password = password] >>
          /\ rest_resp' = response
          /\ rest_outcome' = RestLoginOutcome(response)
          /\ access_token' =
                IF response.ok /\ response.status = "200" /\ response.json = "dict"
                THEN response.token ELSE access_token
          /\ rest_auth' =
                IF RestLoginOutcome(response).kind = "return"
                THEN response.token ELSE rest_auth
    /\ UNCHANGED <<wsvars, legacyvars, routevars, concvars, rest_closed>>

\* set_password, line 181
FaultyRestAuthenticated == TRUE
RestAuthenticated == TruthyStr(access_token) \/ TruthyStr(api_key)

\* set_password, lines 197-202: the id of the first row whose username is
\* the one asked for, None when there is none or the row has no id
RestFindUser(users, username) ==
    LET M == { i \in DOMAIN users : users[i].username = username }
    IN  IF M = {} THEN None
        ELSE users[CHOOSE i \in M : \A j \in M : i <= j].id

\* set_password, lines 181-235
RestSetPassword ==
    /\ client_class = "TrueNASRestClient"
    /\ \E username \in Usernames, new_password \in Passwords,
          listing \in UserListResponses, update \in PlainResponses :
          LET get == RestRequest("GET", "/user", rest_auth)
              user_id == RestFindUser(listing.users, username)
              put == [RestRequest("PUT", "/user/id", rest_auth)
                         EXCEPT !.user_id = user_id, !.password = new_password]
              failed(detail) == Raise("Password change request failed: " \o detail,
                                      None, None)
          IN
          /\ rest_cur' = [RestOp("set_password")
                             EXCEPT !.username = username,
                                    !.new_password = new_password,
                                    !.users = IF RestAuthenticated /\ listing.ok
                                                 /\ listing.status = "200"
                                              THEN listing.users ELSE <<>>]
          /\ IF ~RestAuthenticated
             THEN /\ rest_outcome' = Raise("Not authenticated. Call login() first.",
                                           None, None)
                  /\ rest_http' = <<>>
                  /\ rest_resp' = RestNoResponse
                  /\ UNCHANGED rest_closed
             ELSE /\ rest_closed' = FALSE
                  /\ IF ~listing.ok \/ listing.status # "200" \/ listing.json # "list"
                        \/ user_id = None
                     THEN /\ rest_http' = <<get>>
                          /\ rest_resp' = listing
                          /\ rest_outcome' =
                                IF ~listing.ok THEN failed("ConnectionError")
                                ELSE IF listing.status # "200"
                                THEN Raise("Failed to get user list: HTTP "
                                              \o listing.status, None, None)
                                ELSE IF listing.json # "list" THEN failed("ValueError")
                                ELSE Raise("User '" \o username \o "' not found",
                                           None, None)
                     ELSE /\ rest_http' = <<get, put>>
                          /\ rest_resp' = update
                          /\ rest_outcome' =
                                IF ~update.ok THEN failed("ConnectionError")
                                ELSE IF update.status = "200" THEN Ret(JBool(TRUE))
                                ELSE Raise("Password change failed: HTTP "
                                              \o update.status \o ": " \o update.text,
                                           None, None)
    /\ UNCHANGED <<wsvars, legacyvars, routevars, concvars, access_token, rest_auth>>

RestNext ==
    \/ RestConnect
    \/ RestDisconnect
    \/ RestLogin
    \/ RestSetPassword

(***************************************************************************)
(* TrueNASWebSocketClient._call under concurrent callers (lines 85-130).   *)
(* A thread's pc: "idle" (outside _call), "locked" (inside the with block, *)
(* before the counter is loaded), "loaded" (self._request_id loaded, not   *)
(* yet stored back), "stored" (incremented value stored), "send" (id read, *)
(* lock released) and "recv" (request sent, in the read loop).  The        *)
(* appliance answers every request it received once, with a result frame  *)
(* under the request's id, in any order.                                   *)
(***************************************************************************)
Callers == 1..MaxCallers
NoCaller == [pc |-> "idle", loaded |-> 0, request_id |-> NoId, outcome |-> NoOutcome]

ConcInit ==
    /\ shared_request_id = 0
    /\ lock = 0
    /\ callers = [t \in Callers |-> NoCaller]
    /\ wire = <<>>
    /\ inbox = <<>>
    /\ assigned = <<>>
    /\ discarded = {}

\* line 88, "with self._lock": the lock can be taken
FaultyLockFree == TRUE
LockFree == lock = 0

\* line 88: _call is entered on the connected client and the lock taken
Acquire(t) ==
    /\ client_class = "TrueNASWebSocketClient"
    /\ callers[t].pc = "idle"
    /\ shared_request_id < MaxReq
    /\ LockFree
    /\ lock' = t
    /\ callers' = [callers EXCEPT ![t] = [NoCaller EXCEPT !.pc = "locked"]]
    /\ UNCHANGED <<wsvars, legacyvars, restvars, routevars, shared_request_id, wire,
                   inbox, assigned, discarded>>

\* line 89, "self._request_id += 1": the load
Load(t) ==
    /\ callers[t].pc = "locked"
    /\ callers' = [callers EXCEPT ![t].pc = "loaded", ![t].loaded = shared_request_id]
    /\ UNCHANGED <<wsvars, legacyvars, restvars, routevars, shared_request_id, lock,
                   wire, inbox, assigned, discarded>>

\* line 89: the store of the incremented value
Store(t) ==
    /\ callers[t].pc = "loaded"
    /\ shared_request_id' = NextId(callers[t].loaded)
    /\ callers' = [callers EXCEPT ![t].pc = "stored"]
    /\ UNCHANGED <<wsvars, legacyvars, restvars, routevars, lock, wire, inbox,
                   assigned, discarded>>

\* line 90, "request_id = str(self._request_id)", and the end of the with
\* block
ReadId(t) ==
    /\ callers[t].pc = "stored"
    /\ callers' = [callers EXCEPT ![t].pc = "send",
                                  ![t].request_id = StrId(shared_request_id)]
    /\ assigned' = Append(assigned, StrId(shared_request_id))
    /\ lock' = IF lock = t THEN 0 ELSE lock
    /\ UNCHANGED <<wsvars, legacyvars, restvars, routevars, shared_request_id, wire,
                   inbox, discarded>>

\* line 101: self._ws.send, which may raise WebSocketException
Send(t) ==
    /\ callers[t].pc = "send"
    /\ \E sendok \in BOOLEAN :
          IF sendok
          THEN /\ wire' = Append(wire, callers[t].request_id)
               /\ callers' = [callers EXCEPT ![t].pc = "recv"]
          ELSE /\ callers' = [callers EXCEPT
                                 ![t].pc = "idle",
                                 ![t].outcome = Raise("WebSocket error: send", None, None)]
               /\ UNCHANGED wire
    /\ UNCHANGED <<wsvars, legacyvars, restvars, routevars, shared_request_id, lock,
                   inbox, assigned, discarded>>

\* The appliance answers one of the requests it holds.
Answer ==
    /\ \E i \in DOMAIN wire :
          /\ inbox' = Append(inbox, [Obj(wire[i], "result") EXCEPT !.result = JBool(TRUE)])
          /\ wire' = SubSeq(wire, 1, i - 1) \o SubSeq(wire, i + 1, Len(wire))
    /\ UNCHANGED <<wsvars, legacyvars, restvars, routevars, shared_request_id, lock,
                   callers, assigned, discarded>>

\* lines 111-116: what is left on the socket after the read loop skipped a
\* frame
FaultyDiscard(rest, frame) == Append(rest, frame)
Discard(rest, frame) == rest

\* lines 105-130: one recv() of the read loop returns the oldest frame
Recv(t) ==
    /\ callers[t].pc = "recv"
    /\ inbox # <<>>
    /\ LET response == Head(inbox)
       IN  IF IdMatches(response, callers[t].request_id)
           THEN /\ inbox' = Tail(inbox)
                /\ callers' = [callers EXCEPT ![t].pc = "idle",
                                              ![t].outcome = CallResult(response)]
                /\ UNCHANGED discarded
           ELSE /\ inbox' = Discard(Tail(inbox), response)
                /\ discarded' = discarded \cup {response.id}
                /\ UNCHANGED callers
    /\ UNCHANGED <<wsvars, legacyvars, restvars, routevars, shared_request_id, lock,
                   wire, assigned>>

\* lines 105, 132-133: recv() gives up on an empty socket (the timeout set
\* at connect, line 158) and raises WebSocketTimeoutException
RecvTimeout(t) ==
    /\ callers[t].pc = "recv"
    /\ inbox = <<>>
    /\ callers' = [callers EXCEPT ![t].pc = "idle",
                                  ![t].outcome = Raise("WebSocket error: timeout", None, None)]
    /\ UNCHANGED <<wsvars, legacyvars, restvars, routevars, shared_request_id, lock,
                   wire, inbox, assigned, discarded>>

ConcNext ==
    \/ \E t \in Callers : Acquire(t)
    \/ \E t \in Callers : Load(t)
    \/ \E t \in Callers : Store(t)
    \/ \E t \in Callers : ReadId(t)
    \/ \E t \in Callers : Send(t)
    \/ Answer
    \/ \E t \in Callers : Recv(t)
    \/ \E t \in Callers : RecvTimeout(t)

vars == <<wsvars, legacyvars, restvars, routevars, concvars>>
Init == LegacyInit /\ WsInit /\ RestInit /\ RouteInit /\ ConcInit
Next == WsNext \/ LegacyNext \/ RestNext
Spec == Init /\ [][Next]_vars
RouteSpec == Init /\ [][RouteNext]_vars
ConcSpec == Init /\ [][ConcNext]_vars

(***************************************************************************)
(* The claims.                                                             *)
(***************************************************************************)
\* What a state says of a finished operation of the client.
Finished(name) == pc = "idle" /\ cur.op = name /\ outcome.kind # "none"
\* The operation's last _call returned a value (a result envelope carrying
\* the awaited id and no error).
CallReturned ==
    last.f = "obj" /\ last.id = cur.request_id /\ last.msg # "error" /\ ~last.haserr
\* login finished after user.query returned at least one row
LoginWithRecord ==
    Finished("login") /\ CallReturned /\ last.result.t = "list" /\ Len(last.result.rows) > 0
LoginUser == last.result.rows[1]
\* no usable second-factor token was supplied
NoToken == cur.otp_token = None \/ cur.otp_token = Some("")
\* login passed the second-factor gate and the probe did not verify the
\* password, so the hash fallback decided
FallbackDecided ==
    /\ LoginWithRecord
    /\ ~(LoginUser.twofactor_auth_configured /\ NoToken)
    /\ ~(LoginUser.smb /\ cur.probe = "true")
InvalidCredentials(o) ==
    /\ o.kind = "raise"
    /\ o.message = "Invalid username or password"
    /\ o.reason = Some("Invalid username or password")
    /\ o.code = None
\* the stored hash opens with the marker of one of the three schemes
Marked(h) == Len(h) >= 3 /\ h[1] = "$" /\ h[2] \in {"6", "5", "1"} /\ h[3] = "$"

\* C1: in the password-change route every set_password call is made for the
\* session's username and the submitted new password, and only after
\* connect() and then login(session username, submitted current password)
\* returned without raising in the same request; no call before it raised.
C1_SetPasswordOnlyAfterLogin ==
    \A i \in DOMAIN calls :
       calls[i].fn = "set_password" =>
          /\ req.route = "change"
          /\ session.username # None
          /\ calls[i].a = session.username[1]
          /\ calls[i].b = req.new_password
          /\ i = 3
          /\ calls[1] = ClientCall("connect", "", "", "ok")
          /\ calls[2] = ClientCall("login", session.username[1], req.current_password, "ok")
C1_Witness ==
    /\ Len(calls) >= 3
    /\ calls[3].fn = "set_password"
    /\ calls[3].res = "ok"
    /\ req.new_password # req.current_password

\* C2: a _call never ends on a frame whose id differs from the id it sent:
\* the frame that ends it carries that id, a returned value is that frame's
\* result and a raised error that frame's error, and no frame carrying the
\* awaited id is ever discarded.
C2_CallMatchesById ==
    /\ ~cur.skipped_own
    /\ (pc = "idle" /\ last.f = "obj" /\ cur.op \in {"call", "login", "set_password"})
          => last.id = cur.request_id
    /\ (Finished("call") /\ last.f = "obj") =>
          /\ outcome.kind = "return" => (outcome.value = last.result /\ CallReturned)
          /\ outcome.kind = "raise" => (last.msg = "error" \/ last.haserr)
C2_Witness ==
    /\ Finished("call")
    /\ cur.skipped
    /\ cur.request_id = StrId(2)
    /\ outcome = Ret(JDict)

\* C3: login raises the same TrueNASAPIError, message and reason 'Invalid
\* username or password', when user.query returned no rows, when the hash
\* fallback finds no stored hash, and when it finds a well-formed hash of a
\* supported scheme that the password does not match.
C3_SameRejection ==
    /\ (Finished("login") /\ CallReturned /\ ~Truthy(last.result))
          => InvalidCredentials(outcome)
    /\ (FallbackDecided /\ LoginUser.unixhash \in {None, Some(<<>>)})
          => InvalidCredentials(outcome)
    /\ (FallbackDecided
          /\ \E k \in {"6", "5", "1"}, p \in Passwords :
                p # cur.password /\ LoginUser.unixhash = Some(CryptHash(k, p)))
          => InvalidCredentials(outcome)
C3_Witness ==
    /\ FallbackDecided
    /\ LoginUser.unixhash = Some(CryptHash("5", "pw1"))
    /\ cur.password = "pw2"
    /\ outcome.verifier = "5"
    /\ InvalidCredentials(outcome)

\* C4: when the fetched record has the second-factor flag set and no token
\* is supplied, login raises 'OTP token required' with the reason
\* 'Two-factor authentication required', whatever the password, and runs
\* neither the SMB probe nor a hash verifier.
C4_SecondFactorFirst ==
    (LoginWithRecord /\ LoginUser.twofactor_auth_configured /\ NoToken) =>
       /\ outcome.kind = "raise"
       /\ outcome.message = "OTP token required"
       /\ outcome.reason = Some("Two-factor authentication required")
       /\ ~outcome.probed
       /\ outcome.verifier = "none"
C4_Witness ==
    /\ LoginWithRecord
    /\ LoginUser.twofactor_auth_configured
    /\ LoginUser.smb
    /\ LoginUser.unixhash = Some(CryptHash("6", cur.password))
    /\ cur.otp_token = None
    /\ cur.probe = "true"
    /\ outcome.kind = "raise"

\* C5: for a record with the smb flag set (and past the second-factor gate)
\* a probe that succeeds makes login return True without any hash verifier
\* run, and a probe that returns false or raises leaves the result to the
\* hash fallback: login ends as the fallback alone ends for that record and
\* password.
C5_ProbeNeverRejects ==
    (LoginWithRecord /\ LoginUser.smb
        /\ ~(LoginUser.twofactor_auth_configured /\ NoToken)) =>
       /\ outcome.probed
       /\ cur.probe = "true" =>
             (outcome.kind = "return" /\ outcome.value = JBool(TRUE)
                /\ outcome.verifier = "none")
       /\ cur.probe # "true" =>
             [outcome EXCEPT !.probed = FALSE] = HashFallback(LoginUser, cur.password)
C5_Witness ==
    /\ LoginWithRecord
    /\ LoginUser.smb
    /\ cur.probe = "raise"
    /\ LoginUser.unixhash = Some(CryptHash("6", cur.password))
    /\ outcome.kind = "return"
    /\ outcome.verifier = "6"

C7_VerifierByMarker ==
    (FallbackDecided /\ LoginUser.unixhash \notin {None, Some(<<>>)}) =>
       LET h == LoginUser.unixhash[1]
       IN  /\ Marked(h) => outcome.verifier = h[2]
           /\ outcome.kind = "return" <=>
                 (Marked(h) /\ Len(h) = 6 /\ h[5] = "$"
                    /\ h[6] = Digest(h[2], cur.password, h[4]))
C7_Witness ==
    /\ FallbackDecided
    /\ LoginUser.unixhash = Some(CryptHash("5", cur.password))
    /\ ~LoginUser.smb
    /\ outcome = [Ret(JBool(TRUE)) EXCEPT !.verifier = "5"]

\* the reply connect read to its hello acknowledges it
Acked == cur.hello_reply.f = "obj" /\ cur.hello_reply.msg = "connected"

\* C8 (states): the first message connect sends is the hello; it sends a
\* method call only after a reply with msg "connected" was read; a connect
\* whose first reply is anything else ends raising with the hello alone
\* sent; a connect that returns holds the session of the reply.
C8_States ==
    cur.op = "connect" =>
       /\ sent # <<>> => sent[1] = Hello(ws)
       /\ \A i \in DOMAIN sent : sent[i].msg = "method" => (i > 1 /\ Acked)
       /\ (Finished("connect") /\ cur.hello_reply.f # "none" /\ ~Acked)
             => (outcome.kind = "raise" /\ sent = <<Hello(ws)>>)
       /\ (Finished("connect") /\ outcome.kind = "return")
             => (Acked /\ session_id = cur.hello_reply.session)
\* C8 (steps): the step that reads a first reply other than "connected"
\* stores no session identifier and sends nothing; the step that reads
\* "connected" stores the reply's session.
C8_Steps ==
    /\ (pc = "handshake" /\ pc' # "handshake"
          /\ ~(last'.f = "obj" /\ last'.msg = "connected"))
          => (session_id' = session_id /\ sent' = sent /\ outcome'.kind = "raise")
    /\ (pc = "handshake" /\ last'.f = "obj" /\ last'.msg = "connected")
          => session_id' = last'.session
\* C8: connect sends the hello first and no method call before the
\* "connected" reply; on any other first reply it raises, sends no method
\* call and stores no session identifier; on success the reply's session
\* identifier is stored.
C8_HandshakeFirst == []C8_States /\ [][C8_Steps]_vars
C8_Witness ==
    /\ Finished("connect")
    /\ TruthyStr(api_key)
    /\ cur.hello_reply.f = "obj"
    /\ cur.hello_reply.msg = "failed"
    /\ cur.hello_reply.session # session_id
    /\ outcome.kind = "raise"

\* C9: with an API key configured connect sends, right after the hello, one
\* auth.login_with_api_key call and nothing else (two messages in all, when
\* the hello was acknowledged and the send went through), and it returns
\* only if that call returned a truthy result; without an API key it sends
\* the hello alone.
C9_BootstrapLogin ==
    cur.op = "connect" =>
       /\ ~TruthyStr(api_key) =>
             (Len(sent) <= 1 /\ \A i \in DOMAIN sent : sent[i].msg # "method")
       /\ TruthyStr(api_key) =>
             /\ Len(sent) <= 2
             /\ \A i \in DOMAIN sent :
                   sent[i].msg = "method" =>
                      /\ i = 2
                      /\ sent[i] = Method(ws, StrId(request_id), "auth.login_with_api_key",
                                          [NoParams EXCEPT !.key = api_key[1]])
             /\ (Finished("connect") /\ Acked) =>
                   (Len(sent) = 2 \/ outcome = Raise("WebSocket error: send", None, None))
             /\ (Finished("connect") /\ outcome.kind = "return") =>
                   (Len(sent) = 2 /\ CallReturned /\ Truthy(last.result))
C9_Witness ==
    /\ Finished("connect")
    /\ TruthyStr(api_key)
    /\ Len(sent) = 2
    /\ CallReturned
    /\ last.result = JBool(FALSE)
    /\ outcome = Raise("API key authentication failed", None, None)

\* C10 as stated: set_password sends a request only if the most recent
\* connect on the client returned; after a connect that raised it sends
\* nothing and fails.
C10_SetPasswordNeedsConnect ==
    /\ (cur.op = "set_password" /\ sent # <<>>) => last_connect = "return"
    /\ (Finished("set_password") /\ last_connect = "raise")
          => (sent = <<>> /\ outcome.kind = "raise")

\* What a state says of a set_password call.
QueryOf(c) == [NoParams EXCEPT !.username = c.username]
\* its user.query returned a list with at least one row
QueryReturnedRows == cur.users.t = "list" /\ Len(cur.users.rows) > 0
\* its user.update was sent and returned without error
UpdateReturned == cur.stage = "update" /\ Len(sent) = 2 /\ CallReturned
\* the frame that ended the operation's last _call is an error envelope
ErrorEnvelope == last.f = "obj" /\ (last.msg = "error" \/ last.haserr)

\* C11: on a client with an API key, connected by a connect that returned,
\* set_password does not need login to have been called: it is never refused
\* as unauthenticated or unconnected, and when user.query returns rows and
\* user.update returns without error it has sent the query and the update
\* and returns True.
C11_SetPasswordWithoutLogin ==
    (Finished("set_password") /\ TruthyStr(api_key) /\ ws # 0
        /\ last_connect = "return" /\ ~login_called) =>
       /\ outcome.message \notin { "Not authenticated. API key required.",
                                   "Not connected. Call connect() first." }
       /\ (QueryReturnedRows /\ UpdateReturned) =>
             /\ outcome = Ret(JBool(TRUE))
             /\ sent[1].method = "user.query"
             /\ sent[2].method = "user.update"
C11_Witness ==
    /\ Finished("set_password")
    /\ ~login_called
    /\ last_connect = "return"
    /\ Len(sent) = 2
    /\ outcome = Ret(JBool(TRUE))

\* C12: set_password(name, new) first sends user.query filtered on the
\* username, then (at most) one user.update carrying the id of the first
\* returned row and the new password; it returns True only when both calls
\* returned without error; when user.update is answered by an error
\* envelope it raises with the envelope's reason and code.
C12_QueryThenUpdate ==
    cur.op = "set_password" =>
       /\ Len(sent) <= 2
       /\ sent # <<>> =>
             sent[1] = Method(ws, sent[1].id, "user.query", QueryOf(cur))
       /\ Len(sent) = 2 =>
             /\ QueryReturnedRows
             /\ sent[2] = Method(ws, cur.request_id, "user.update",
                                 [NoParams EXCEPT !.user_id = cur.users.rows[1].id,
                                                  !.password = cur.new_password])
       /\ (Finished("set_password") /\ outcome.kind = "return") =>
             /\ outcome.value = JBool(TRUE)
             /\ Len(sent) = 2
             /\ cur.stage = "update"
             /\ CallReturned
       /\ (Finished("set_password") /\ cur.stage = "update" /\ ErrorEnvelope) =>
             /\ outcome.kind = "raise"
             /\ last.haserr /\ last.err.t = "dict" =>
                   (outcome.reason = last.err.reason /\ outcome.code = last.err.code)
C12_Witness ==
    /\ Finished("set_password")
    /\ cur.stage = "update"
    /\ Len(cur.users.rows) = 2
    /\ ErrorEnvelope
    /\ outcome = Raise("Account is locked", Some(22), Some("Account is locked"))

\* C13: when user.query returns no rows (an empty list, or null),
\* set_password raises "User '<name>' not found" and sends no user.update.
C13_NoRowsNoUpdate ==
    (Finished("set_password") /\ cur.stage = "query" /\ CallReturned
        /\ last.result \in {JList(<<>>), JNull}) =>
       /\ outcome = Raise("User '" \o cur.username \o "' not found", None, None)
       /\ \A i \in DOMAIN sent : sent[i].method # "user.update"
C13_Witness ==
    /\ Finished("set_password")
    /\ CallReturned
    /\ last.result = JList(<<>>)
    /\ Len(sent) = 1
    /\ outcome.kind = "raise"

\* What a state says of the last operation of the TrueNASClient.
LegacyFinished(name) == legacy_cur.op = name /\ legacy_outcome.kind # "none"
\* The step sends a request: a _call of the handshake client got past its
\* send, or the direct-envelope client's operation sent its request.
WsSends == pc' = "call" /\ (pc # "call" \/ Len(sent') > Len(sent))
LegacySends == legacy_sent' # <<>> /\ legacy_sent' # legacy_sent
\* the method requests among the messages the operation sent
Requests == { i \in DOMAIN sent : sent[i].msg = "method" }

\* C14 (states): the requests one operation sent carry increasing ids, one
\* apart, none above the client's counter.
C14_States ==
    /\ \A i \in Requests :
          /\ sent[i].id.k = "str"
          /\ 1 <= sent[i].id.n /\ sent[i].id.n <= request_id
          /\ (i + 1) \in Requests => sent[i + 1].id.n = sent[i].id.n + 1
    /\ \A i \in DOMAIN legacy_sent :
          legacy_sent[i].id.n >= 1 /\ legacy_sent[i].id.n <= message_id
\* C14 (steps): no operation (connect, disconnect, a call that fails)
\* lowers or resets the counter; each request handed to the socket takes
\* the counter's next value, one above every id used before.
C14_Steps ==
    /\ request_id' \in {request_id, request_id + 1}
    /\ message_id' \in {message_id, message_id + 1}
    /\ WsSends =>
          /\ request_id' = request_id + 1
          /\ sent'[Len(sent')].id = StrId(request_id + 1)
    /\ LegacySends =>
          /\ message_id' = message_id + 1
          /\ legacy_sent'[1].id = IntId(message_id + 1)
\* C14: over any sequence of operations on one client (connect, calls that
\* succeed or fail, disconnect, reconnect) the ids of its requests increase
\* by exactly 1 per request made, so none is sent twice.
C14_IdsIncrease == []C14_States /\ [][C14_Steps]_vars
C14_Witness ==
    /\ pc = "call"
    /\ cur.op = "call"
    /\ ws = 2
    /\ open_socks = {2}
    /\ last_connect = "return"
    /\ cur.request_id = StrId(3)

\* C15 as stated: the first request sent on every connection that connect
\* opens carries the id 1 (with an API key that request is the bootstrap
\* login, the second message connect sends).
C15_FirstIdIsOne ==
    (cur.op = "connect" /\ Len(sent) >= 2) => sent[2].id = StrId(1)

\* C16: a _call made while the client holds no socket raises 'Not
\* connected' and sends nothing, in both clients.
C16_NotConnected ==
    /\ (cur.op = "call" /\ ws = 0) =>
          /\ pc = "idle"
          /\ outcome = Raise("Not connected. Call connect() first.", None, None)
          /\ sent = <<>>
    /\ (legacy_cur.op = "call" /\ legacy_ws = 0) =>
          /\ legacy_outcome = Raise("Not connected to TrueNAS", None, None)
          /\ legacy_sent = <<>>
    /\ \A i \in DOMAIN sent : sent[i].sock # 0
    /\ \A i \in DOMAIN legacy_sent : legacy_sent[i].sock # 0
C16_Witness ==
    /\ Finished("call")
    /\ ws = 0
    /\ last_connect = "return"
    /\ request_id > 0
    /\ outcome.kind = "raise"

\* C17: when the response _call reads carries an error object (with, in the
\* direct-envelope dialect, a data member that is absent or an object),
\* _call raises TrueNASAPIError and returns no result; its code and reason
\* are error.error and error.reason in TrueNASWebSocketClient, and
\* error.data.error and error.data.reason, or error.data.errname when
\* data has no reason member, in TrueNASClient.
C17_ErrorFieldsSurface ==
    /\ (Finished("call") /\ last.f = "obj" /\ last.haserr /\ last.err.t = "dict") =>
          /\ outcome.kind = "raise"
          /\ outcome.code = last.err.code
          /\ outcome.reason = last.err.reason
    /\ (LegacyFinished("call") /\ legacy_last.f = "obj" /\ legacy_last.haserr
          /\ legacy_last.err.t = "dict") =>
          /\ legacy_outcome.kind = "raise"
          /\ legacy_outcome.code = legacy_last.err.data.error
          /\ legacy_outcome.reason =
                IF legacy_last.err.data.has_reason THEN legacy_last.err.data.reason
                ELSE legacy_last.err.data.errname
C17_Witness ==
    /\ LegacyFinished("call")
    /\ legacy_last.haserr
    /\ legacy_last.err.data.t = "dict"
    /\ ~legacy_last.err.data.has_reason
    /\ legacy_outcome = Raise("Unknown error", Some(13), Some("EACCES"))

\* C18 as stated: TrueNASClient._call never hands its caller the result or
\* the error of a response whose id differs from the id of the request it
\* sent.
C18_LegacyMatchesById ==
    (LegacyFinished("call") /\ legacy_last.f = "obj"
        /\ (legacy_outcome.kind = "return" \/ legacy_last.haserr))
       => legacy_last.id = legacy_cur.request_id

\* C19 (states): disconnect returns (it never raises) and leaves the client
\* without a socket, whatever came before and whether or not close() raised.
C19_States ==
    /\ Finished("disconnect") => (outcome = Ret(JNull) /\ ws = 0)
    /\ LegacyFinished("disconnect") => (legacy_outcome = Ret(JNull) /\ legacy_ws = 0)
\* C19 (steps): a disconnect right after a disconnect changes nothing of
\* the client, and a _call right after a disconnect fails 'Not connected'.
C19_Steps ==
    /\ (Finished("disconnect") /\ cur'.op = "disconnect") =>
          (ws' = 0 /\ outcome' = Ret(JNull) /\ open_socks' = open_socks)
    /\ (Finished("disconnect") /\ cur'.op = "call") =>
          outcome' = Raise("Not connected. Call connect() first.", None, None)
    /\ (LegacyFinished("disconnect") /\ legacy_cur'.op = "disconnect") =>
          (legacy_ws' = 0 /\ legacy_outcome' = Ret(JNull) /\ legacy_open' = legacy_open)
    /\ (LegacyFinished("disconnect") /\ legacy_cur'.op = "call") =>
          legacy_outcome' = Raise("Not connected to TrueNAS", None, None)
\* C19: disconnect is idempotent and total: called twice in a row, before
\* any connect, after a connect that raised, or with a close() that raises,
\* it never raises, and afterwards the client holds no socket (a _call that
\* follows fails with 'Not connected').
C19_DisconnectTotal == []C19_States /\ [][C19_Steps]_vars
C19_Witness ==
    /\ Finished("disconnect")
    /\ last_connect = "raise"
    /\ next_sock = 1
    /\ open_socks = {1}
    /\ ws = 0

\* C20 as stated: after disconnect returns the client holds no socket
\* reference, no session identifier (handshake dialect) and no
\* authentication token (TrueNASClient).
C20_DisconnectClearsState ==
    /\ Finished("disconnect") => (ws = 0 /\ session_id = None)
    /\ LegacyFinished("disconnect") => (legacy_ws = 0 /\ auth_token = None)

\* What a state says of the request the routes served last.
Served == rpc = "idle" /\ req.route # "none"
CallsOf(fn) == { i \in DOMAIN calls : calls[i].fn = fn }
Changed == served.flash = <<"Password changed successfully!">>

\* C22: in the login and the password-change route, once the response is
\* returned every client.connect() of the request, whether it returned or
\* raised and whatever the calls after it did, is followed by at least one
\* client.disconnect().
C22_ConnectPairedWithDisconnect ==
    Served =>
       \A i \in CallsOf("connect") : \E j \in CallsOf("disconnect") : j > i
C22_Witness ==
    /\ Served
    /\ req.route = "change"
    /\ Len(calls) = 4
    /\ calls[3] = ClientCall("set_password", "alice", req.new_password, "Exception")
    /\ calls[4].fn = "disconnect"

\* C23 as stated: the web session never holds a plaintext password; after
\* a successful login it holds the username alone.
C23_NoPasswordInSession == session.password = None

\* C24 as stated: after a successful password change the session is
\* cleared: it holds no username.
C24_SessionClearedAfterChange ==
    (req.route = "change" /\ Changed) => session.username = None

\* the request is a password change whose connect and login returned
ChangeLoggedIn ==
    /\ Served
    /\ req.route = "change"
    /\ Len(calls) >= 2
    /\ calls[1] = ClientCall("connect", "", "", "ok")
    /\ calls[2].fn = "login" /\ calls[2].res = "ok"
C26_States ==
    /\ (req.route = "change" /\ session.username = None) =>
          /\ rpc = "idle"
          /\ calls = <<>>
          /\ served = Redirect("auth.login", <<"Please log in to access this page.">>)
    /\ req.route = "logout" => session = EmptySession
\* C26 (steps): only the login route, after client.login returned for the
\* submitted username and password, puts a username into the session.
C26_Steps ==
    (session.username = None /\ session'.username # None) =>
       /\ req.route = "login"
       /\ Len(calls) = 2
       /\ calls[2] = ClientCall("login", req.username, req.password, "ok")
       /\ session'.username = Some(req.username)
\* C26: /change-password without a username in the session redirects to the
\* login page and never contacts the appliance; /logout empties the
\* session, so this lasts until a later login succeeds.
C26_LoginRequired == []C26_States /\ [][C26_Steps]_vars
C26_Witness ==
    /\ req.route = "change"
    /\ req.method = "POST"
    /\ PasswordChangeFormValid(req)
    /\ session.username = None
    /\ web = 3
    /\ served.kind = "redirect"

\* C21 as stated: at every point of any sequence of connect and disconnect
\* calls on one client instance, at most one socket opened by that client
\* is open.
C21_AtMostOneSocket ==
    Cardinality(open_socks) <= 1 /\ Cardinality(legacy_open) <= 1

NotAuthenticated == Raise("Not authenticated", None, Some("Must login first"))
\* C27 (states): on TrueNASClient, set_password and get_current_user called
\* while no token is held raise 'Not authenticated' and send nothing; no
\* token is held at creation or after disconnect.
C27_States ==
    /\ (legacy_cur.op \in {"set_password", "get_current_user"} /\ auth_token = None) =>
          legacy_outcome = NotAuthenticated /\ legacy_sent = <<>>
    /\ legacy_cur.op \in {"none", "disconnect"} => auth_token = None
\* C27 (steps): only a login that returns True makes the client hold a
\* token, and a refused call takes no message id.
C27_Steps ==
    /\ (auth_token = None /\ auth_token' # None) =>
          legacy_cur'.op = "login" /\ legacy_outcome' = Ret(JBool(TRUE))
    /\ (auth_token = None /\ legacy_cur'.op \in {"set_password", "get_current_user"}) =>
          message_id' = message_id
\* C27: on TrueNASClient, set_password and get_current_user raise
\* 'Not authenticated' and send no request unless a login has succeeded
\* since the client's creation or its last disconnect.
C27_NeedsLogin == []C27_States /\ [][C27_Steps]_vars
C27_Witness ==
    /\ legacy_cur.op = "set_password"
    /\ legacy_outcome = NotAuthenticated
    /\ legacy_sent = <<>>
    /\ LegacyConnected
    /\ legacy_socks = 2
    /\ message_id >= 1

\* constructed without an API key (None or the empty string)
NoApiKey == api_key = None \/ api_key = Some("")
\* C28 (states): on a handshake client without an API key, a finished login
\* or set_password raised its 'API key required' error and sent nothing.
C28_States ==
    (NoApiKey /\ cur.op \in {"login", "set_password"}) =>
       /\ pc = "idle"
       /\ sent = <<>>
       /\ outcome =
             Raise(IF cur.op = "login"
                   THEN "API key required for password verification"
                   ELSE "Not authenticated. API key required.", None, None)
\* C28 (steps): such a call leaves the request counter as it was.
C28_Steps ==
    (NoApiKey /\ cur'.op \in {"login", "set_password"}) => request_id' = request_id
\* C28: on a TrueNASWebSocketClient constructed without an API key, login
\* and set_password raise TrueNASAPIError ('API key required') before
\* sending any request, connected or not, and leave the request counter
\* unchanged.
C28_ApiKeyRequired == []C28_States /\ [][C28_Steps]_vars
C28_Witness ==
    /\ Finished("set_password")
    /\ api_key = Some("")
    /\ Connected
    /\ request_id = 1
    /\ outcome.message = "Not authenticated. API key required."

\* C29 (states): a login whose user.query returned sent that one request,
\* with an id of its own, for the username it was called with, and its
\* outcome is the one the returned record, the supplied password and token
\* and the probe give.
C29_States ==
    (Finished("login") /\ CallReturned) =>
       /\ sent = <<Method(sent[1].sock, StrId(request_id), "user.query", QueryOf(cur))>>
       /\ cur.request_id = StrId(request_id)
       /\ LET users == last.result
          IN  outcome =
                 IF ~Truthy(users) THEN UserNotFound
                 ELSE IF users.t # "list" THEN AuthenticationFailed("TypeError")
                 ELSE IF NeedsOtp(users.rows[1], cur.otp_token) THEN OtpRequired
                 ELSE ProbeThenFallback(users.rows[1], cur.password, cur.probe)
\* C29 (steps): a login writes no field of the client but the request
\* counter.
C29_Steps ==
    cur'.op = "login" => UNCHANGED <<api_key, ws, session_id, open_socks, next_sock>>
\* C29: every TrueNASWebSocketClient.login issues its own user.query and
\* decides only on the record that query returned, and leaves the client's
\* fields other than the request counter unchanged.
C29_LoginStateless == []C29_States /\ [][C29_Steps]_vars
C29_Witness ==
    /\ Finished("login")
    /\ CallReturned
    /\ request_id = 3
    /\ Len(last.result.rows) = 2
    /\ last.result.rows[1].twofactor_auth_configured
    /\ outcome = OtpRequired

RestFinished(name) == rest_cur.op = name /\ rest_outcome.kind # "none"
C31_ConnectNeedsNoHandshake ==
    (legacy_cur.op = "connect" /\ legacy_last # LegacyNoFrame) =>
       legacy_outcome = Ret(JNull)

\* C34: in the login route only the step after client.connect() and
\* client.login() both returned writes the session, and it writes the
\* username submitted; every other step of a login request, the arrival of
\* an invalid form and a raising connect or login included, leaves the
\* session exactly as it was.
C34_FailedLoginKeepsSession ==
    [][ (req'.route = "login" /\ session' # session) =>
           /\ rpc = "store"
           /\ calls = << ClientCall("connect", "", "", "ok"),
                         ClientCall("login", req.username, req.password, "ok") >>
           /\ session'.username = Some(req.username) ]_vars
C34_Witness ==
    /\ Served
    /\ req.route = "login"
    /\ req.username = "bob"
    /\ Len(calls) = 3
    /\ calls[2] = ClientCall("login", "bob", req.password, "TrueNASAPIError")
    /\ session.username = Some("alice")

\* a valid password-change submission of a logged-in session arrives
ChangeSubmitted ==
    /\ web' = web + 1
    /\ req'.route = "change"
    /\ req'.method = "POST"
    /\ PasswordChangeFormValid(req')
    /\ session.username # None
C36_LastLoginDecides ==
    (legacy_cur.op = "login" /\ legacy_outcome # Ret(JBool(TRUE))) =>
       ~LegacyIsAuthenticated

\* the operation sent a request other than its user.query
OtpValidated == \E i \in DOMAIN sent : sent[i].msg = "method" /\ sent[i].method # "user.query"
\* C37 as stated: for a record with the second-factor flag set, login
\* returns True only after the appliance validated the token.
C37_OtpValidated ==
    (LoginWithRecord /\ LoginUser.twofactor_auth_configured
        /\ outcome.kind = "return") => OtpValidated

\* the PUT requests among the requests set_password made
RestPuts == { i \in DOMAIN rest_http : rest_http[i].verb = "PUT" }
\* C38: TrueNASRestClient.set_password called while the client holds
\* neither an access token nor an API key raises 'Not authenticated' and
\* makes no HTTP request, and no token is held after disconnect; otherwise
\* it sends the PUT only after GET /user listed a row with the exact
\* username, to that row's id, and returns True only when the PUT was
\* answered with HTTP 200.
C38_RestSetPassword ==
    /\ rest_cur.op = "disconnect" => access_token = None
    /\ RestFinished("set_password") =>
          /\ (~TruthyStr(access_token) /\ ~TruthyStr(api_key)) =>
                /\ rest_outcome = Raise("Not authenticated. Call login() first.", None, None)
                /\ rest_http = <<>>
          /\ \A i \in RestPuts :
                /\ i = 2
                /\ rest_http[1].verb = "GET" /\ rest_http[1].endpoint = "/user"
                /\ rest_http[i].password = rest_cur.new_password
                /\ \E k \in DOMAIN rest_cur.users :
                      /\ rest_cur.users[k].username = rest_cur.username
                      /\ rest_cur.users[k].id = rest_http[i].user_id
                      /\ rest_http[i].user_id # None
          /\ rest_outcome.kind = "return" =>
                /\ rest_outcome = Ret(JBool(TRUE))
                /\ RestPuts = {2}
                /\ rest_resp.ok /\ rest_resp.status = "200"
C38_Witness ==
    /\ RestFinished("set_password")
    /\ api_key = None
    /\ rest_auth = Some("tok-1")
    /\ access_token = None
    /\ rest_http = <<>>
    /\ rest_outcome.message = "Not authenticated. Call login() first."

\* the thread is in _call, or left it, with this id
Holds(t, id) == callers[t].request_id = id /\ id # NoId
\* C32: once a thread's read loop has skipped the response to another
\* thread's request, that thread's _call does not return a result: each
\* request being answered once, its response is gone.
C32_StolenResponseIsLost ==
    \A t \in Callers :
       (callers[t].request_id \in discarded) => callers[t].outcome.kind # "return"
\* the interleaving: both requests were answered, nothing is left on the
\* socket, thread 1 skipped thread 2's response and still got its own, and
\* thread 2's _call ended without a result
C32_Witness ==
    /\ Len(assigned) = 2
    /\ wire = <<>>
    /\ inbox = <<>>
    /\ Holds(2, StrId(2))
    /\ StrId(2) \in discarded
    /\ callers[1].request_id = StrId(1)
    /\ callers[1].outcome = Ret(JBool(TRUE))
    /\ callers[2].pc = "idle"
    /\ callers[2].outcome = Raise("WebSocket error: timeout", None, None)

\* C33: under any interleaving of concurrent _call invocations the ids
\* assigned are pairwise distinct.
C33_IdsDistinct ==
    \A i, j \in DOMAIN assigned : i # j => assigned[i] # assigned[j]
C33_Witness ==
    /\ assigned = <<StrId(1), StrId(2)>>
    /\ callers[1].pc = "send" /\ callers[1].request_id = StrId(2)
    /\ callers[2].pc = "send" /\ callers[2].request_id = StrId(1)

====
